---- MODULE Spec2Model ----
(***************************************************************************)
(* entropy-tunnel: the tunnel engine (internal/tunnel/engine.go), the      *)
(* local control API in front of it (internal/api/server.go) and the       *)
(* client host process that wires them (cmd/entropy-client/main.go); the   *)
(* rotation controllers (internal/rotation/aws.go, which also holds the    *)
(* Endpoint and the NoOpController, cloudflare.go and akash/controller.go) *)
(* and the health monitor                                                  *)
(* (internal/rotation/health.go).                                          *)
(*                                                                         *)
(* Goroutines are the members of Threads.  Every goroutine may call the    *)
(* engine directly (as the host process and the tests do) or serve one     *)
(* request of the control API.  A call is a sequence of atomic steps; a    *)
(* step is one or more source lines between which no other goroutine can   *)
(* observe a difference (the lock operations decide that).                 *)
(***************************************************************************)
EXTENDS Naturals, Integers, Sequences, FiniteSets, TLC

\* ---------------------------------------------------------------- bounds
NumThreads == 2          \* goroutines calling into the engine / the API
MaxInst == 2             \* loader invocations that return an Instance

NumCallers == 2          \* goroutines calling into a rotation controller
MaxRot == 2              \* Rotate calls per controller (values of c.counter)
MaxTime == 2             \* readings of the clock
Hour == 1                \* clock readings per hour
MaxTasks == 2            \* goroutines spawned by StartAutoRotation / Start
MaxTicks == 4            \* Rotate calls of the goroutines of StartAutoRotation
MaxStops == 1            \* StopAutoRotation / Stop calls

Threads == 1..NumThreads
Callers == 1..NumCallers
MaxEnds == 3             \* Rotate calls on a controller whose list is followed in memory
MaxArrays == 3           \* backing arrays in use at one time
ArrayIds == 1..MaxArrays
NilSlice == [arr |-> 0, len |-> 0]
Tasks == 1..MaxTasks
InstIds == 1..MaxInst
ChanIds == 1..(MaxInst + 1)

\* ------------------------------------------------- engine.go:15-21 status
StatusStopped == "stopped"
StatusStarting == "starting"
StatusRunning == "running"
StatusStopping == "stopping"
StatusError == "error"

\* Return values of Engine.Start / Engine.Stop (the error texts of
\* engine.go:116, 147, 159, 165, 180; "ok" is the nil error).
Ok == "ok"
ErrAlreadyRunning == "engine is already running"
ErrBuild == "failed to build xray config"
ErrLoad == "failed to load xray config"
ErrInstStart == "failed to start xray instance"
ErrNotRunning == "engine is not running"
StepErrors == {ErrBuild, ErrLoad, ErrInstStart}

\* HTTP status codes written by the handlers (net/http constants used in
\* server.go:122, 127, 143, 148; 200 is writeJSON's implicit status).
HttpOK == 200
HttpConflict == 409
HttpInternal == 500

VARIABLES
    \* --- Engine (engine.go:55-66)
    status,       \* e.status
    instance,     \* e.instance: 0 is nil, else the id of the Instance
    stopCh,       \* e.stopCh: the id of the current channel
    jsonCached,   \* e.jsonConfig # nil
    muWriter,     \* e.mu: the goroutine holding Lock, 0 when none
    \* --- the environment of the engine
    instState,    \* per Instance: "none", "loaded", "started", "failed", "closed"
    closes,       \* per Instance: number of Close calls
    trig,         \* per channel: number of close(ch) executed on it
    \* --- api.Server (server.go:17-30)
    serverCreated,
    connected,    \* s.connected
    startTime,    \* s.startTime: 0 is the zero time, else the Instance
                  \* whose Start the timestamp was taken after
    smuWriter,    \* s.mu: the goroutine holding Lock, 0 when none
    smuReaders,   \* s.mu: the goroutines holding RLock
    \* --- per goroutine
    pc,           \* position
    ctx,          \* who called the engine operation in progress
    ret,          \* value returned by the last engine operation
    inst,         \* Start's local variable `instance`
    steps,        \* the steps the current / last Start invoked, in order
    closeErr,     \* whether the Close of the last Stop returned an error
    resp,         \* the HTTP response of the last request served
    \* --- an observer of engine termination
    obs,          \* the channel it last obtained from StopCh(), 0 when none
    obsRun,       \* the Instance that was running when it obtained obs
    \* --- history
    startBatch,   \* goroutines whose Start was pending while the state was stopped
    stopBatch     \* goroutines whose Stop was pending while the state was running

VARIABLES
    \* --- a rotation controller (aws.go:282-288, cloudflare.go:16-22,
    \*     aws.go:16-22, akash/controller.go:16-26)
    variant,      \* which constructor made it: "none" before construction
    endpoints,    \* c.endpoints
    counter,      \* c.counter
    cstopCh,      \* c.stopCh: the id of the current channel
    cclosed,      \* the channels close() was executed on
    \* --- the environment of the controller
    now,          \* the clock
    remote,       \* the workers / functions that exist at the provider
    \* --- per goroutine calling the controller
    rpc,          \* position
    rep,          \* the Endpoint the call works on
    rcancel,      \* the ctx of the call in progress was cancelled
    \* --- the goroutines of StartAutoRotation
    tpc,          \* position
    tch,          \* the channel the select of the goroutine waits on
    actx,         \* the ctx given to StartAutoRotation was cancelled
    pend,         \* endpoints a `go c.Retire(ctx, ep)` is pending for
    \* --- history of the controller
    issued,       \* the endpoints Rotate appended, in the order of the appends
    retired,      \* the ids Retire removed from c.endpoints
    last,         \* the last Rotate / Retire that returned
    starts,       \* number of StartAutoRotation calls
    stops,        \* number of StopAutoRotation calls that returned
    halted,       \* goroutines that existed when a StopAutoRotation returned
    rotBy,        \* goroutines that invoked Rotate since the last StartAutoRotation
    late,         \* a halted goroutine began another Rotate
    \* --- a HealthChecker (health.go:16-24) and the goroutines of its Start
    hstopCh,      \* hc.stopCh: the id of the current channel
    hclosed,      \* the channels close() was executed on
    mpc,          \* position of each goroutine
    mch,          \* the channel the select of the goroutine waits on
    mctx,         \* the ctx given to Start was cancelled
    mhost,        \* position of the owner in Stop
    \* --- history of the HealthChecker
    rounds,       \* number of probe rounds begun
    mstops,       \* number of Stop calls that returned
    mhalted,      \* goroutines that existed when a Stop returned
    mlate,        \* a halted goroutine began another probe round
    \* --- the probing of the HealthChecker (health.go:95-183)
    results,      \* hc.results: endpoint id -> [healthy, count]
    mlist,        \* checkAll: the endpoints the goroutine has yet to probe
    mres,         \* checkEndpoint: the FailCount the goroutine copied
    hgo,          \* the goroutines checkAll spawned for Retire and Rotate
    \* --- history of the probing
    streak,       \* endpoint id -> failed probes since the last success
    hlast         \* the last result stored, the FailCount that had been copied
                  \* for it, and whether a goroutine was spawned

VARIABLES
    \* --- the compilation of a configuration (config_builder.go) and the
    \*     loading of what it produced (engine.go:240-247)
    cin,          \* the *Config or *ClientConfig at hand
    cstage,       \* how far it got: "none", "loaded", "validated", "rejected",
                  \* "compiled", "failed", "instance", "refused", "running"
    cjson,        \* the bytes BuildServerJSON / BuildClientJSON returned
    cdoc,         \* what json.Unmarshal reads from the bytes
    cerr,         \* the error of the last step, "" when nil
    \* --- history of the compilation
    cvalid,       \* Validate accepted the configuration
    cleak,        \* the identifying strings found in the bytes
    cgiven        \* the configuration as it was before Validate

cmpVars == <<cin, cstage, cjson, cdoc, cerr, cvalid, cleak, cgiven>>

VARIABLES
    \* --- the protocol registry (protocols/registry.go)
    protocols,    \* r.protocols: the registered Protocol of each name in it
    \* --- history of the registry
    rlast         \* the last call: what it was given and what it returned

regVars == <<protocols, rlast>>

VARIABLES
    \* --- the list of a controller in memory (aws.go:302-351,
    \*     akash/controller.go:131-171)
    heap,         \* the backing arrays: for each one the pointers it holds
    cends,        \* c.endpoints: the array it points into and its length
    snap,         \* the slice the last ActiveEndpoints returned, and what
                  \* it held when it was returned
    \* --- history of the list
    slast         \* the last Rotate / Retire: the list before and after

memVars == <<heap, cends, snap, slast>>

\* The packages without goroutines of their own, and the list in memory.
libVars == <<cmpVars, regVars, memVars>>

ctlVars == <<variant, endpoints, counter, cstopCh, cclosed, now, remote, rpc,
             rep, rcancel, tpc, tch, actx, pend, issued, retired, last,
             starts, stops, halted, rotBy, late>>

prbVars == <<results, mlist, mres, hgo, streak, hlast>>

monVars == <<hstopCh, hclosed, mpc, mch, mctx, mhost, rounds, mstops, mhalted,
             mlate, prbVars>>

rotVars == <<ctlVars, monVars>>

vars == <<status, instance, stopCh, jsonCached, muWriter, instState, closes,
          trig, serverCreated, connected, startTime, smuWriter, smuReaders,
          pc, ctx, ret, inst, steps, closeErr, resp, obs, obsRun, startBatch,
          stopBatch, rotVars, libVars>>

supVars == <<status, instance, stopCh, jsonCached, muWriter, instState,
             closes, trig, serverCreated, connected, startTime, smuWriter,
             smuReaders, pc, ctx, ret, inst, steps, closeErr, resp, obs,
             obsRun, startBatch, stopBatch>>

clientVars == <<supVars, libVars>>

engineVars == <<status, instance, stopCh, jsonCached, muWriter>>
envVars == <<instState, closes, trig>>
serverVars == <<serverCreated, connected, startTime, smuWriter, smuReaders>>
obsVars == <<obs, obsRun>>

NoResp == [verb |-> "none", code |-> 0, body |-> "", connected |-> FALSE,
           status |-> "", uptime |-> FALSE]

NoEndpoint ==
    [id |-> <<"", 0, 0>>, address |-> "", provider |-> "", created |-> 0,
     expires |-> 0]
NoLast == [op |-> "none", ret |-> "none", found |-> FALSE, live |-> FALSE,
           delta |-> 0, same |-> TRUE, gone |-> TRUE, cancelled |-> FALSE]

\* No controller constructed yet; a HealthChecker as NewHealthChecker leaves
\* it (health.go:37-50), not started.
InitRotation ==
    /\ variant = "none"
    /\ endpoints = <<>>
    /\ counter = 0
    /\ cstopCh = 1
    /\ cclosed = {}
    /\ now = 0
    /\ remote = {}
    /\ rpc = [t \in Callers |-> "idle"]
    /\ rep = [t \in Callers |-> NoEndpoint]
    /\ rcancel = [t \in Callers |-> FALSE]
    /\ tpc = [k \in Tasks |-> "none"]
    /\ tch = [k \in Tasks |-> 0]
    /\ actx = FALSE
    /\ pend = {}
    /\ issued = <<>>
    /\ retired = {}
    /\ last = NoLast
    /\ starts = 0
    /\ stops = 0
    /\ halted = {}
    /\ rotBy = {}
    /\ late = FALSE
    /\ hstopCh = 1
    /\ hclosed = {}
    /\ mpc = [k \in Tasks |-> "none"]
    /\ mch = [k \in Tasks |-> 0]
    /\ mctx = FALSE
    /\ mhost = "idle"
    /\ rounds = 0
    /\ mstops = 0
    /\ mhalted = {}
    /\ mlate = FALSE
    /\ results = <<>>
    /\ mlist = [k \in Tasks |-> <<>>]
    /\ mres = [k \in Tasks |-> 0]
    /\ hgo = {}
    /\ streak = <<>>
    /\ hlast = [prev |-> 0, count |-> 0, healthy |-> TRUE, spawned |-> FALSE]

\* NewEngine / NewClientEngine (engine.go:79-86, 100-107); no api.Server yet.
\* No configuration read yet.
InitCompile ==
    /\ cin = [kind |-> "none", nil |-> TRUE]
    /\ cstage = "none"
    /\ cjson = <<>>
    /\ cdoc = [t |-> "nil"]
    /\ cerr = ""
    /\ cvalid = FALSE
    /\ cleak = {}
    /\ cgiven = [kind |-> "none", nil |-> TRUE]

\* registry.go:35-39: NewRegistry, an empty map.
InitRegistry ==
    /\ protocols = <<>>
    /\ rlast = [op |-> "none"]

\* No array allocated: c.endpoints as the constructors leave it (aws.go:291-300,
\* akash/controller.go:45-52: an empty slice), no snapshot taken.
InitList ==
    /\ heap = [a \in ArrayIds |-> <<>>]
    /\ cends = NilSlice
    /\ snap = [taken |-> FALSE, slice |-> NilSlice, was |-> <<>>]
    /\ slast = [op |-> "none"]

Init ==
    /\ InitRotation
    /\ InitCompile
    /\ InitRegistry
    /\ InitList
    /\ status = StatusStopped
    /\ instance = 0
    /\ stopCh = 1
    /\ jsonCached = FALSE
    /\ muWriter = 0
    /\ instState = [i \in InstIds |-> "none"]
    /\ closes = [i \in InstIds |-> 0]
    /\ trig = [c \in ChanIds |-> 0]
    /\ serverCreated = FALSE
    /\ connected = FALSE
    /\ startTime = 0
    /\ smuWriter = 0
    /\ smuReaders = {}
    /\ pc = [t \in Threads |-> "idle"]
    /\ ctx = [t \in Threads |-> "direct"]
    /\ ret = [t \in Threads |-> "none"]
    /\ inst = [t \in Threads |-> 0]
    /\ steps = [t \in Threads |-> <<>>]
    /\ closeErr = [t \in Threads |-> FALSE]
    /\ resp = [t \in Threads |-> NoResp]
    /\ obs = 0
    /\ obsRun = 0
    /\ startBatch = {}
    /\ stopBatch = {}

\* ------------------------------------------------------------ sync.RWMutex
\* e.mu.Lock() can be acquired (engine.go:112, 176): no goroutine holds it.
\* Engine.Status holds RLock inside one atomic step only, so there is never
\* a reader to wait for.
MuFree_mut == TRUE
MuFree == muWriter = 0

\* Where a goroutine continues when the engine operation it called returns.
Continuation(t) ==
    CASE ctx[t] = "direct" -> "idle"
      [] ctx[t] = "hconnect" -> "hc_ret"
      [] ctx[t] = "hdisconnect" -> "hd_ret"
      [] ctx[t] = "hstatus" -> "hs_respond"

\* A goroutine begins a new call or request: the results of its previous one
\* are gone.  A batch it was part of is over.
Begin(t, c) ==
    /\ ctx' = [ctx EXCEPT ![t] = c]
    /\ ret' = [ret EXCEPT ![t] = "none"]
    /\ inst' = [inst EXCEPT ![t] = 0]
    /\ steps' = [steps EXCEPT ![t] = <<>>]
    /\ closeErr' = [closeErr EXCEPT ![t] = FALSE]

\* The batches after goroutine t invoked operation op ("start", "stop", or
\* "other") of the engine.
StartBatchAfter(t, op) ==
    IF t \in startBatch THEN {}
    ELSE IF op = "start" /\ status = StatusStopped THEN startBatch \cup {t}
    ELSE startBatch
StopBatchAfter(t, op) ==
    IF t \in stopBatch THEN {}
    ELSE IF op = "stop" /\ status = StatusRunning THEN stopBatch \cup {t}
    ELSE stopBatch

\* ------------------------------------------------------------ Engine.Start
\* A goroutine calls e.Start() directly (main.go:154, engine_test.go:264).
StartCall(t) ==
    /\ pc[t] = "idle"
    /\ pc' = [pc EXCEPT ![t] = "start_enter"]
    /\ Begin(t, "direct")
    /\ resp' = [resp EXCEPT ![t] = NoResp]
    /\ startBatch' = StartBatchAfter(t, "start")
    /\ stopBatch' = StopBatchAfter(t, "start")
    /\ UNCHANGED <<rotVars, libVars, engineVars, envVars, serverVars, obsVars>>

\* engine.go:115: Start refuses when the engine is running.
StartRefused_mut == FALSE
StartRefused == status = StatusRunning

\* engine.go:112-119: take the lock; fail when running, else store starting.
StartEnter(t) ==
    /\ pc[t] = "start_enter"
    /\ MuFree
    /\ IF StartRefused
         THEN /\ ret' = [ret EXCEPT ![t] = ErrAlreadyRunning]
              /\ pc' = [pc EXCEPT ![t] = Continuation(t)]
              /\ UNCHANGED <<status, muWriter>>
         ELSE /\ status' = StatusStarting
              /\ muWriter' = t
              /\ pc' = [pc EXCEPT ![t] = "start_build"]
              /\ UNCHANGED ret
    /\ UNCHANGED <<rotVars, libVars, instance, stopCh, jsonCached, envVars, serverVars, ctx, inst,
                   steps, closeErr, resp, obsVars, startBatch, stopBatch>>

\* The state Start stores when one of its steps fails (engine.go:146, 158, 164).
FailedStatus_mut == StatusStopped
FailedStatus == StatusError

\* The error return of Start (engine.go:146-147, 158-159, 164-165): the state
\* becomes error, the deferred Unlock runs, the caller gets the error.
StartFail(t, err) ==
    /\ status' = FailedStatus
    /\ muWriter' = 0
    /\ ret' = [ret EXCEPT ![t] = err]
    /\ pc' = [pc EXCEPT ![t] = Continuation(t)]

\* engine.go:126-149: build the JSON document.  The outcome depends on the
\* configuration the engine points to (an unparseable listen address fails,
\* config_builder.go:250-277), which the owner may change between calls.
StartBuild(t) ==
    /\ pc[t] = "start_build"
    /\ steps' = [steps EXCEPT ![t] = Append(@, "build")]
    /\ \E ok \in BOOLEAN :
         IF ok
           THEN /\ jsonCached' = TRUE
                /\ pc' = [pc EXCEPT ![t] = "start_load"]
                /\ UNCHANGED <<status, muWriter, ret>>
           ELSE /\ StartFail(t, ErrBuild)
                /\ UNCHANGED jsonCached
    /\ UNCHANGED <<rotVars, libVars, instance, stopCh, envVars, serverVars, ctx, inst, closeErr,
                   resp, obsVars, startBatch, stopBatch>>

\* The next Instance the loader hands out.
NextInst == Cardinality({i \in InstIds : instState[i] # "none"}) + 1

\* engine.go:156-160: instance, err := e.loader(jsonCfg).
StartLoad(t) ==
    /\ pc[t] = "start_load"
    /\ steps' = [steps EXCEPT ![t] = Append(@, "load")]
    /\ \E ok \in BOOLEAN :
         IF ok
           THEN /\ NextInst \in InstIds
                /\ inst' = [inst EXCEPT ![t] = NextInst]
                /\ instState' = [instState EXCEPT ![NextInst] = "loaded"]
                /\ pc' = [pc EXCEPT ![t] = "start_inst"]
                /\ UNCHANGED <<status, muWriter, ret>>
           ELSE /\ StartFail(t, ErrLoad)
                /\ UNCHANGED <<inst, instState>>
    /\ UNCHANGED <<rotVars, libVars, instance, stopCh, jsonCached, closes, trig, serverVars, ctx,
                   closeErr, resp, obsVars, startBatch, stopBatch>>

\* engine.go:163-171: instance.Start(); on success the engine owns the
\* Instance and is running.  The goroutines waiting to Stop now face a
\* running engine.
StartInst(t) ==
    /\ pc[t] = "start_inst"
    /\ steps' = [steps EXCEPT ![t] = Append(@, "start")]
    /\ \E ok \in BOOLEAN :
         IF ok
           THEN /\ instState' = [instState EXCEPT ![inst[t]] = "started"]
                /\ instance' = inst[t]
                /\ status' = StatusRunning
                /\ muWriter' = 0
                /\ ret' = [ret EXCEPT ![t] = Ok]
                /\ pc' = [pc EXCEPT ![t] = Continuation(t)]
                /\ stopBatch' = {u \in Threads : pc[u] = "stop_enter"}
           ELSE /\ instState' = [instState EXCEPT ![inst[t]] = "failed"]
                /\ StartFail(t, ErrInstStart)
                /\ UNCHANGED <<instance, stopBatch>>
    /\ UNCHANGED <<rotVars, libVars, stopCh, jsonCached, closes, trig, serverVars, ctx, inst,
                   closeErr, resp, obsVars, startBatch>>

\* ------------------------------------------------------------- Engine.Stop
\* A goroutine calls e.Stop() directly (main.go:178, engine_test.go:275).
StopCall(t) ==
    /\ pc[t] = "idle"
    /\ pc' = [pc EXCEPT ![t] = "stop_enter"]
    /\ Begin(t, "direct")
    /\ resp' = [resp EXCEPT ![t] = NoResp]
    /\ startBatch' = StartBatchAfter(t, "stop")
    /\ stopBatch' = StopBatchAfter(t, "stop")
    /\ UNCHANGED <<rotVars, libVars, engineVars, envVars, serverVars, obsVars>>

\* engine.go:179: Stop refuses unless the engine is running.
StopRefused_mut == status = StatusStopped
StopRefused == status # StatusRunning

\* engine.go:176-184: take the lock; fail unless running, else store stopping.
StopEnter(t) ==
    /\ pc[t] = "stop_enter"
    /\ MuFree
    /\ IF StopRefused
         THEN /\ ret' = [ret EXCEPT ![t] = ErrNotRunning]
              /\ pc' = [pc EXCEPT ![t] = Continuation(t)]
              /\ UNCHANGED <<status, muWriter>>
         ELSE /\ status' = StatusStopping
              /\ muWriter' = t
              /\ pc' = [pc EXCEPT ![t] = "stop_closech"]
              /\ UNCHANGED ret
    /\ UNCHANGED <<rotVars, libVars, instance, stopCh, jsonCached, envVars, serverVars, ctx, inst,
                   steps, closeErr, resp, obsVars, startBatch, stopBatch>>

\* engine.go:186: close(e.stopCh).
StopCloseCh(t) ==
    /\ pc[t] = "stop_closech"
    /\ trig' = [trig EXCEPT ![stopCh] = @ + 1]
    /\ pc' = [pc EXCEPT ![t] = "stop_closeinst"]
    /\ UNCHANGED <<rotVars, libVars, engineVars, instState, closes, serverVars, ctx, ret, inst,
                   steps, closeErr, resp, obsVars, startBatch, stopBatch>>

\* engine.go:188-192: e.instance.Close() when there is an Instance; an error
\* it returns is logged and dropped.
StopCloseInst(t) ==
    /\ pc[t] = "stop_closeinst"
    /\ IF instance # 0
         THEN /\ instState' = [instState EXCEPT ![instance] = "closed"]
              /\ closes' = [closes EXCEPT ![instance] = @ + 1]
              /\ \E err \in BOOLEAN : closeErr' = [closeErr EXCEPT ![t] = err]
         ELSE UNCHANGED <<instState, closes, closeErr>>
    /\ pc' = [pc EXCEPT ![t] = "stop_finish"]
    /\ UNCHANGED <<rotVars, libVars, engineVars, trig, serverVars, ctx, ret, inst, steps, resp,
                   obsVars, startBatch, stopBatch>>

\* engine.go:196: e.stopCh = make(chan struct{}).
FreshStopCh_mut == stopCh
FreshStopCh == stopCh + 1

\* What Stop returns once the Instance was closed (engine.go:189-198).
StopResult_mut(t) == IF closeErr[t] THEN "error closing xray instance" ELSE Ok
StopResult(t) == Ok

\* engine.go:194-198: drop the Instance, store stopped, make a new channel;
\* the deferred Unlock runs.  The goroutines waiting to Start now face a
\* stopped engine.
StopFinish(t) ==
    /\ pc[t] = "stop_finish"
    /\ instance' = 0
    /\ status' = StatusStopped
    /\ stopCh' = FreshStopCh
    /\ muWriter' = 0
    /\ ret' = [ret EXCEPT ![t] = StopResult(t)]
    /\ pc' = [pc EXCEPT ![t] = Continuation(t)]
    /\ startBatch' = {u \in Threads : pc[u] = "start_enter"}
    /\ UNCHANGED <<rotVars, libVars, jsonCached, envVars, serverVars, ctx, inst, steps, closeErr,
                   resp, obsVars, stopBatch>>

\* ----------------------------------------------------------- Engine.Status
\* A goroutine calls e.Status() directly (engine_test.go:267).
StatusCall(t) ==
    /\ pc[t] = "idle"
    /\ pc' = [pc EXCEPT ![t] = "status_read"]
    /\ Begin(t, "direct")
    /\ resp' = [resp EXCEPT ![t] = NoResp]
    /\ startBatch' = StartBatchAfter(t, "other")
    /\ stopBatch' = StopBatchAfter(t, "other")
    /\ UNCHANGED <<rotVars, libVars, engineVars, envVars, serverVars, obsVars>>

\* e.mu.RLock() can be acquired (engine.go:203): no goroutine holds Lock.
CanRLock == muWriter = 0

\* engine.go:203-205: RLock, read e.status, RUnlock.
StatusRead(t) ==
    /\ pc[t] = "status_read"
    /\ CanRLock
    /\ ret' = [ret EXCEPT ![t] = status]
    /\ pc' = [pc EXCEPT ![t] = Continuation(t)]
    /\ UNCHANGED <<rotVars, libVars, engineVars, envVars, serverVars, ctx, inst, steps, closeErr,
                   resp, obsVars, startBatch, stopBatch>>

\* engine.go:209-211: StopCh() reads e.stopCh without the lock.  The read
\* races with the store of engine.go:196; the word-sized load yields the
\* channel stored before or after it, which is the value of stopCh in the
\* state the step is taken in.
StopChRead ==
    /\ obs' = stopCh
    /\ obsRun' = IF status = StatusRunning THEN instance ELSE 0
    /\ <<obs', obsRun'>> # <<obs, obsRun>>
    /\ UNCHANGED <<rotVars, libVars, engineVars, envVars, serverVars, pc, ctx, ret, inst, steps,
                   closeErr, resp, startBatch, stopBatch>>

\* --------------------------------------------------------------- api.Server
\* server.go:33-42, called by the host at main.go:163: a Server in front of
\* the engine, whatever state the engine is in; s.connected is the zero value.
NewServer(t) ==
    /\ pc[t] = "idle"
    /\ ~serverCreated
    /\ serverCreated' = TRUE
    /\ connected' = FALSE
    /\ startTime' = 0
    /\ UNCHANGED <<rotVars, libVars, engineVars, envVars, smuWriter, smuReaders, pc, ctx, ret,
                   inst, steps, closeErr, resp, obsVars, startBatch, stopBatch>>

\* s.mu.Lock() can be acquired (server.go:118, 139).
SmuFree == smuWriter = 0 /\ smuReaders = {}

Reply(v, c, b) == [NoResp EXCEPT !.verb = v, !.code = c, !.body = b]

\* A POST /api/connect arrives (server.go:49); net/http serves it in a
\* goroutine of its own.
HcCall(t) ==
    /\ pc[t] = "idle"
    /\ serverCreated
    /\ pc' = [pc EXCEPT ![t] = "hc_enter"]
    /\ Begin(t, "hconnect")
    /\ resp' = [resp EXCEPT ![t] = NoResp]
    /\ startBatch' = StartBatchAfter(t, "other")
    /\ stopBatch' = StopBatchAfter(t, "other")
    /\ UNCHANGED <<rotVars, libVars, engineVars, envVars, serverVars, obsVars>>

\* server.go:118-126: take s.mu; Conflict when s.connected, else call
\* s.engine.Start() with s.mu held.
HcEnter(t) ==
    /\ pc[t] = "hc_enter"
    /\ SmuFree
    /\ IF connected
         THEN /\ resp' = [resp EXCEPT ![t] =
                             Reply("connect", HttpConflict, "already connected")]
              /\ pc' = [pc EXCEPT ![t] = "idle"]
              /\ UNCHANGED <<smuWriter, startBatch>>
         ELSE /\ smuWriter' = t
              /\ pc' = [pc EXCEPT ![t] = "start_enter"]
              /\ startBatch' = StartBatchAfter(t, "start")
              /\ UNCHANGED resp
    /\ UNCHANGED <<rotVars, libVars, engineVars, envVars, serverCreated, connected, startTime,
                   smuReaders, ctx, ret, inst, steps, closeErr, obsVars,
                   stopBatch>>

\* server.go:126-136: Internal with the error text when Start failed, else
\* set s.connected and s.startTime and answer connected; s.mu is released.
HcRet(t) ==
    /\ pc[t] = "hc_ret"
    /\ IF ret[t] # Ok
         THEN /\ resp' = [resp EXCEPT ![t] = Reply("connect", HttpInternal, ret[t])]
              /\ UNCHANGED <<connected, startTime>>
         ELSE /\ connected' = TRUE
              /\ startTime' = inst[t]
              /\ resp' = [resp EXCEPT ![t] = Reply("connect", HttpOK, "connected")]
    /\ smuWriter' = 0
    /\ pc' = [pc EXCEPT ![t] = "idle"]
    /\ UNCHANGED <<rotVars, libVars, engineVars, envVars, serverCreated, smuReaders, ctx, ret,
                   inst, steps, closeErr, obsVars, startBatch, stopBatch>>

\* A POST /api/disconnect arrives (server.go:50).
HdCall(t) ==
    /\ pc[t] = "idle"
    /\ serverCreated
    /\ pc' = [pc EXCEPT ![t] = "hd_enter"]
    /\ Begin(t, "hdisconnect")
    /\ resp' = [resp EXCEPT ![t] = NoResp]
    /\ startBatch' = StartBatchAfter(t, "other")
    /\ stopBatch' = StopBatchAfter(t, "other")
    /\ UNCHANGED <<rotVars, libVars, engineVars, envVars, serverVars, obsVars>>

\* server.go:139-147: take s.mu; Conflict unless s.connected, else call
\* s.engine.Stop() with s.mu held.
HdEnter(t) ==
    /\ pc[t] = "hd_enter"
    /\ SmuFree
    /\ IF ~connected
         THEN /\ resp' = [resp EXCEPT ![t] =
                             Reply("disconnect", HttpConflict, "not connected")]
              /\ pc' = [pc EXCEPT ![t] = "idle"]
              /\ UNCHANGED <<smuWriter, stopBatch>>
         ELSE /\ smuWriter' = t
              /\ pc' = [pc EXCEPT ![t] = "stop_enter"]
              /\ stopBatch' = StopBatchAfter(t, "stop")
              /\ UNCHANGED resp
    /\ UNCHANGED <<rotVars, libVars, engineVars, envVars, serverCreated, connected, startTime,
                   smuReaders, ctx, ret, inst, steps, closeErr, obsVars,
                   startBatch>>

\* server.go:147-157: Internal with the error text when Stop failed, else
\* clear s.connected and s.startTime and answer disconnected.
HdRet(t) ==
    /\ pc[t] = "hd_ret"
    /\ IF ret[t] # Ok
         THEN /\ resp' = [resp EXCEPT ![t] =
                             Reply("disconnect", HttpInternal, ret[t])]
              /\ UNCHANGED <<connected, startTime>>
         ELSE /\ connected' = FALSE
              /\ startTime' = 0
              /\ resp' = [resp EXCEPT ![t] =
                             Reply("disconnect", HttpOK, "disconnected")]
    /\ smuWriter' = 0
    /\ pc' = [pc EXCEPT ![t] = "idle"]
    /\ UNCHANGED <<rotVars, libVars, engineVars, envVars, serverCreated, smuReaders, ctx, ret,
                   inst, steps, closeErr, obsVars, startBatch, stopBatch>>

\* A GET /api/status arrives (server.go:48).
HsCall(t) ==
    /\ pc[t] = "idle"
    /\ serverCreated
    /\ pc' = [pc EXCEPT ![t] = "hs_enter"]
    /\ Begin(t, "hstatus")
    /\ resp' = [resp EXCEPT ![t] = NoResp]
    /\ startBatch' = StartBatchAfter(t, "other")
    /\ stopBatch' = StopBatchAfter(t, "other")
    /\ UNCHANGED <<rotVars, libVars, engineVars, envVars, serverVars, obsVars>>

\* server.go:95-99: take s.mu for reading and call s.engine.Status().
HsEnter(t) ==
    /\ pc[t] = "hs_enter"
    /\ smuWriter = 0
    /\ smuReaders' = smuReaders \cup {t}
    /\ pc' = [pc EXCEPT ![t] = "status_read"]
    /\ UNCHANGED <<rotVars, libVars, engineVars, envVars, serverCreated, connected, startTime,
                   smuWriter, ctx, ret, inst, steps, closeErr, resp, obsVars,
                   startBatch, stopBatch>>

\* server.go:100: isConnected := engineStatus == tunnel.StatusRunning.
IsConnected_mut(t) == connected
IsConnected(t) == ret[t] = StatusRunning

\* server.go:100-114: the response; the uptime is present when connected and
\* s.startTime is set.  s.mu is released.
HsRespond(t) ==
    /\ pc[t] = "hs_respond"
    /\ resp' = [resp EXCEPT ![t] =
                   [verb |-> "status", code |-> HttpOK, body |-> "",
                    connected |-> IsConnected(t), status |-> ret[t],
                    uptime |-> IsConnected(t) /\ startTime # 0]]
    /\ smuReaders' = smuReaders \ {t}
    /\ pc' = [pc EXCEPT ![t] = "idle"]
    /\ UNCHANGED <<rotVars, libVars, engineVars, envVars, serverCreated, connected, startTime,
                   smuWriter, ctx, ret, inst, steps, closeErr, obsVars,
                   startBatch, stopBatch>>

\* ------------------------------------------------------------ specifications
\* The goroutine of the host process (main.go:102-180); the other goroutines
\* are those net/http serves the requests in.
Host == 1

EngineStep(t) ==
    \/ StartEnter(t)
    \/ StartBuild(t)
    \/ StartLoad(t)
    \/ StartInst(t)
    \/ StopEnter(t)
    \/ StopCloseCh(t)
    \/ StopCloseInst(t)
    \/ StopFinish(t)
    \/ StatusRead(t)

EngineCall(t) ==
    \/ StartCall(t)
    \/ StopCall(t)
    \/ StatusCall(t)

\* The engine under any number of goroutines calling it directly.
NextEngine ==
    \/ \E t \in Threads : EngineCall(t) \/ EngineStep(t)
    \/ StopChRead

SpecEngine == Init /\ [][NextEngine]_vars

\* The client process: the host calls the engine and creates the Server, the
\* other goroutines serve the requests of the control API.  Nothing in the
\* client process calls StopCh().
Next ==
    \/ EngineCall(Host)
    \/ NewServer(Host)
    \/ \E t \in Threads : EngineStep(t)
    \/ \E t \in Threads \ {Host} :
        \/ HcCall(t)
        \/ HcEnter(t)
        \/ HcRet(t)
        \/ HdCall(t)
        \/ HdEnter(t)
        \/ HdRet(t)
        \/ HsCall(t)
        \/ HsEnter(t)
        \/ HsRespond(t)

Spec == Init /\ [][Next]_vars

\* -------------------------------------------------- rotation.Endpoint
\* Provider tags (aws.go:311, cloudflare.go:65, aws.go:71,
\* akash/controller.go:106).
ProviderNoOp == "noop"
ProviderCloudflare == "cloudflare"
ProviderAWS == "aws"
ProviderAkash == "akash"

\* Return values of Rotate / Retire (the error texts of aws.go:337,
\* cloudflare.go:55, aws.go:56, 64 and akash/controller.go:69).
ErrNotFound == "endpoint not found"
ErrDeploy == "deploy worker"
ErrCreateFunction == "create lambda"
ErrCreateURL == "create function URL"
ErrAkash == "deploying to Akash"

\* The ids the controllers give to endpoints: a prefix, the Unix time where
\* the name carries one, and the rotation counter (aws.go:308,
\* cloudflare.go:46, aws.go:46).  Akash ids carry the deployment sequence
\* number of the provider (akash/controller.go:103).
NoOpId(n) == <<"noop", 0, n>>
WorkerName(n) == <<"entropy-worker", now, n>>
FunctionName(n) == <<"entropy-lambda", now, n>>
AkashId(n) == <<"akash", 0, n>>

\* The lifetime the controllers give to endpoints (aws.go:313,
\* cloudflare.go:67, aws.go:73: one hour; akash/controller.go:108: 24 hours).
LifeTime(p) == IF p = ProviderAkash THEN 24 * Hour ELSE Hour

\* The kinds of Address the controllers give to endpoints: the loopback
\* address with a port (aws.go:309), the worker name under workers.dev
\* (cloudflare.go:59), the FunctionUrl of the provider's answer (aws.go:69,
\* 187), the host of the lease with port 443 (akash/controller.go:104).
LoopbackAddress == "127.0.0.1:port"
WorkerDomain == "name.workers.dev"
FunctionURL == "https://id.lambda-url"
LeaseAddress == "host:443"

\* The Address a controller builds by itself for a new endpoint.
AddressOf(p) ==
    CASE p = ProviderNoOp -> LoopbackAddress
      [] p = ProviderCloudflare -> WorkerDomain
      [] p = ProviderAkash -> LeaseAddress
      [] OTHER -> ""

\* The Endpoint a Rotate builds at the present time.
NewEndpoint(i, p) ==
    [id |-> i, address |-> AddressOf(p), provider |-> p, created |-> now,
     expires |-> now + LifeTime(p)]

\* aws.go:258-260: IsExpired is time.Now().After(e.ExpiresAt).
IsExpired(e) == now > e.expires

\* aws.go:340-351: the endpoints of a list that are not expired.
ActiveOf(list) == SelectSeq(list, LAMBDA e : ~IsExpired(e))
ActiveEndpoints == ActiveOf(endpoints)

\* The position of the first endpoint of c.endpoints with the id, 0 when
\* there is none (the loops of aws.go:329-335, cloudflare.go:101-106,
\* aws.go:105-110).
IndexOf(i) ==
    IF \E k \in 1..Len(endpoints) : endpoints[k].id = i
      THEN CHOOSE k \in 1..Len(endpoints) :
             /\ endpoints[k].id = i
             /\ \A j \in 1..(k - 1) : endpoints[j].id # i
      ELSE 0

\* append(c.endpoints[:k], c.endpoints[k+1:]...)
Without_mut(k) == SubSeq(endpoints, 1, k - 1)
Without(k) == SubSeq(endpoints, 1, k - 1) \o SubSeq(endpoints, k + 1, Len(endpoints))

\* c.counter++ (aws.go:306, cloudflare.go:45, aws.go:45,
\* akash/controller.go:61).
NextCounter_mut == IF counter = 0 THEN 1 ELSE counter
NextCounter == counter + 1

\* What a Rotate / Retire about id i that returns r leaves in the history:
\* whether the id was in c.endpoints, whether that endpoint was not expired,
\* by how much the length of ActiveEndpoints changed, whether c.endpoints is
\* the same list as before, and whether nothing of the name is left at the
\* provider.
Returned(o, i, r, list, rem) ==
    [op |-> o, ret |-> r,
     found |-> IndexOf(i) # 0,
     live |-> IndexOf(i) # 0 /\ ~IsExpired(endpoints[IndexOf(i)]),
     delta |-> Len(ActiveOf(list)) - Len(ActiveEndpoints),
     same |-> list = endpoints,
     gone |-> i \notin rem,
     cancelled |-> FALSE]

\* The same for a Rotate of goroutine t, with whether the ctx of the call was
\* cancelled by the time it returns.
RotateReturned(t, i, r, list, rem) ==
    [Returned("rotate", i, r, list, rem) EXCEPT !.cancelled = rcancel[t]]

\* c.endpoints = append(c.endpoints, ep) and the return of the endpoint.
AppendEndpoint(e) ==
    /\ endpoints' = Append(endpoints, e)
    /\ issued' = Append(issued, e)
    /\ last' = Returned("rotate", e.id, Ok, Append(endpoints, e), remote)

\* The same at the end of a Rotate of goroutine t that talked to a provider.
AppendBy(t) ==
    /\ endpoints' = Append(endpoints, rep[t])
    /\ issued' = Append(issued, rep[t])
    /\ last' = RotateReturned(t, rep[t].id, Ok, Append(endpoints, rep[t]), remote)

\* The removal of the endpoint with id i from c.endpoints when it is there;
\* r is what the Retire returns.
RemoveEndpoint(i, r) ==
    /\ IF IndexOf(i) # 0
         THEN /\ endpoints' = Without(IndexOf(i))
              /\ retired' = retired \cup {i}
         ELSE UNCHANGED <<endpoints, retired>>
    /\ last' = Returned("retire", i, r,
                        IF IndexOf(i) # 0 THEN Without(IndexOf(i)) ELSE endpoints,
                        remote)

\* ------------------------------------------------------------ constructors
\* NewNoOpController (aws.go:291-300), NewCloudflareController
\* (cloudflare.go:25-40), NewAWSController (aws.go:25-40), akash.NewController
\* (akash/controller.go:35-53): no endpoints, counter 0, an open stopCh.
Construct(v) ==
    /\ variant = "none"
    /\ variant' = v
    /\ UNCHANGED <<endpoints, counter, cstopCh, cclosed, now, remote, rpc, rep,
                   rcancel, tpc, tch, actx, pend, issued, retired, last,
                   starts, stops, halted, rotBy, late, clientVars, monVars>>

NewNoOpController == Construct(ProviderNoOp)
NewCloudflareController == Construct(ProviderCloudflare)
NewAWSController == Construct(ProviderAWS)
NewAkashController == Construct(ProviderAkash)

autoVars == <<cstopCh, cclosed, tpc, tch, actx, pend, starts, stops, halted,
              rotBy, late>>

\* The clock advances.
Tick ==
    /\ now < MaxTime
    /\ now' = now + 1
    /\ UNCHANGED <<variant, endpoints, counter, remote, rpc, rep, rcancel,
                   issued, retired, last, autoVars, clientVars, monVars>>

\* The ctx of the call goroutine t is in is cancelled.
Cancel(t) ==
    /\ rpc[t] # "idle"
    /\ ~rcancel[t]
    /\ rcancel' = [rcancel EXCEPT ![t] = TRUE]
    /\ UNCHANGED <<variant, endpoints, counter, now, remote, rpc, rep, issued,
                   retired, last, autoVars, clientVars, monVars>>

\* An HTTP exchange with the provider under the ctx of goroutine t: it can
\* succeed only while the ctx is not cancelled.
Exchange(t, ok) == ok => ~rcancel[t]

\* Goroutine t goes on to position p of its call, working on e.
Goto(t, p, e) ==
    /\ rpc' = [rpc EXCEPT ![t] = p]
    /\ rep' = [rep EXCEPT ![t] = e]
    /\ UNCHANGED rcancel

\* The call of goroutine t returns.
Return(t) ==
    /\ rpc' = [rpc EXCEPT ![t] = "idle"]
    /\ rep' = [rep EXCEPT ![t] = NoEndpoint]
    /\ rcancel' = [rcancel EXCEPT ![t] = FALSE]

\* ---------------------------------------------------- NoOpController.Rotate
\* aws.go:302-323, all of it under c.mu: count, build the endpoint, append
\* it; it never fails.
LocalRotate ==
    /\ counter' = NextCounter
    /\ AppendEndpoint(NewEndpoint(NoOpId(NextCounter), ProviderNoOp))

NoOpRotate(t) ==
    /\ variant = ProviderNoOp
    /\ rpc[t] = "idle"
    /\ counter < MaxRot
    /\ LocalRotate
    /\ UNCHANGED <<variant, now, remote, rpc, rep, rcancel, retired, autoVars,
                   clientVars, monVars>>

\* ---------------------------------------------------- NoOpController.Retire
\* What it returns for an endpoint with id i (aws.go:333, 337).
LocalRetireResult(i) == IF IndexOf(i) # 0 THEN Ok ELSE ErrNotFound

\* aws.go:325-338, all of it under c.mu: remove the first endpoint with the
\* id and return nil, or return the not-found error.
LocalRetire(e) == RemoveEndpoint(e.id, LocalRetireResult(e.id))

\* The endpoints a caller can pass to Retire: those Rotate returned, and
\* endpoints of its own making that no Rotate returned.
Unknown(p) == [NoEndpoint EXCEPT !.id = <<"nonexistent", 0, 0>>, !.provider = p]
RetireArgs ==
    {issued[k] : k \in 1..Len(issued)} \cup {Unknown(ProviderNoOp), Unknown(variant)}

NoOpRetire(t, e) ==
    /\ variant = ProviderNoOp
    /\ rpc[t] = "idle"
    /\ LocalRetire(e)
    /\ UNCHANGED <<variant, counter, now, remote, rpc, rep, rcancel, issued,
                   autoVars, clientVars, monVars>>

\* ----------------------------------------------- CloudflareController.Rotate
\* cloudflare.go:43-47: count and name the worker under c.mu.
CfRotate(t) ==
    /\ variant = ProviderCloudflare
    /\ rpc[t] = "idle"
    /\ counter < MaxRot
    /\ counter' = NextCounter
    /\ Goto(t, "cf_deploy", [NoEndpoint EXCEPT !.id = WorkerName(NextCounter)])
    /\ UNCHANGED <<variant, endpoints, now, remote, issued, retired, last,
                   autoVars, clientVars, monVars>>

\* cloudflare.go:54-72: deployWorker; on an error Rotate returns it, else the
\* worker exists and the endpoint is built with the present time.
CfDeployWorker(t) ==
    /\ rpc[t] = "cf_deploy"
    /\ \E ok \in BOOLEAN :
         /\ Exchange(t, ok)
         /\ IF ok
              THEN /\ remote' = remote \cup {rep[t].id}
                   /\ Goto(t, "cf_append", NewEndpoint(rep[t].id, ProviderCloudflare))
                   /\ UNCHANGED last
              ELSE /\ last' = RotateReturned(t, rep[t].id, ErrDeploy, endpoints, remote)
                   /\ Return(t)
                   /\ UNCHANGED remote
    /\ UNCHANGED <<variant, endpoints, counter, now, issued, retired, autoVars,
                   clientVars, monVars>>

\* cloudflare.go:74-83: append under c.mu and return the endpoint.
CfAppend(t) ==
    /\ rpc[t] = "cf_append"
    /\ AppendBy(t)
    /\ Return(t)
    /\ UNCHANGED <<variant, counter, now, remote, retired, autoVars, clientVars, monVars>>

\* ----------------------------------------------- CloudflareController.Retire
\* cloudflare.go:87-90: an endpoint of another provider goes to
\* NoOpController.Retire; else the worker is deleted first.
CfRetire(t, e) ==
    /\ variant = ProviderCloudflare
    /\ rpc[t] = "idle"
    /\ IF e.provider # ProviderCloudflare
         THEN /\ LocalRetire(e)
              /\ UNCHANGED <<rpc, rep, rcancel>>
         ELSE /\ Goto(t, "cfr_delete", e)
              /\ UNCHANGED <<endpoints, retired, last>>
    /\ UNCHANGED <<variant, counter, now, remote, issued, autoVars, clientVars, monVars>>

\* cloudflare.go:92-97, 160-184: deleteWorker; an error is logged and dropped.
CfDeleteWorker(t) ==
    /\ rpc[t] = "cfr_delete"
    /\ \E ok \in BOOLEAN :
         /\ Exchange(t, ok)
         /\ remote' = IF ok THEN remote \ {rep[t].id} ELSE remote
    /\ Goto(t, "cfr_remove", rep[t])
    /\ UNCHANGED <<variant, endpoints, counter, now, issued, retired, last,
                   autoVars, clientVars, monVars>>

\* What the Retire of the CDN-worker and serverless variants returns after
\* the loop over c.endpoints (cloudflare.go:109, aws.go:113).
ProviderRetireResult == Ok

\* cloudflare.go:100-109: under c.mu remove the endpoint when it is in the
\* list; return nil.
CfRemove(t) ==
    /\ rpc[t] = "cfr_remove"
    /\ RemoveEndpoint(rep[t].id, ProviderRetireResult)
    /\ Return(t)
    /\ UNCHANGED <<variant, counter, now, remote, issued, autoVars, clientVars, monVars>>

\* ------------------------------------------------------ AWSController.Rotate
\* aws.go:43-47: count and name the function under a.mu.
AwsRotate(t) ==
    /\ variant = ProviderAWS
    /\ rpc[t] = "idle"
    /\ counter < MaxRot
    /\ counter' = NextCounter
    /\ Goto(t, "aws_create", [NoEndpoint EXCEPT !.id = FunctionName(NextCounter)])
    /\ UNCHANGED <<variant, endpoints, now, remote, issued, retired, last,
                   autoVars, clientVars, monVars>>

\* aws.go:55-57, 116-154: createFunction; on an error Rotate returns it.
AwsCreateFunction(t) ==
    /\ rpc[t] = "aws_create"
    /\ \E ok \in BOOLEAN :
         /\ Exchange(t, ok)
         /\ IF ok
              THEN /\ remote' = remote \cup {rep[t].id}
                   /\ Goto(t, "aws_url", rep[t])
                   /\ UNCHANGED last
              ELSE /\ last' = RotateReturned(t, rep[t].id, ErrCreateFunction,
                                         endpoints, remote)
                   /\ Return(t)
                   /\ UNCHANGED remote
    /\ UNCHANGED <<variant, endpoints, counter, now, issued, retired, autoVars,
                   clientVars, monVars>>

\* What the provider can answer to the POST of createFunctionURL: nothing
\* (the transport failed), a 2xx with the URL config as JSON, or a status of
\* 400 or more with a JSON or a non-JSON body.
NoAnswer == "transport error"
Created == "201 json"
RefusedJSON == "4xx json"
RefusedText == "4xx text"
Answers == {NoAnswer, Created, RefusedJSON, RefusedText}

\* aws.go:156-188: createFunctionURL returns an error when client.Do or the
\* JSON decoding of the body fails; the status of the answer is not looked
\* at.
URLError(a) == a \in {NoAnswer, RefusedText}

\* aws.go:180-187: result.FunctionURL after decoding the body; an error body
\* has no FunctionUrl member and leaves the empty string.
DecodedURL(a) == IF a = Created THEN FunctionURL ELSE ""

\* aws.go:60-79: createFunctionURL; without an error the endpoint is built
\* with the returned URL and the present time, on an error the cleanup
\* follows.
AwsCreateFunctionURL(t) ==
    /\ rpc[t] = "aws_url"
    /\ \E a \in Answers :
         /\ Exchange(t, a # NoAnswer)
         /\ IF ~URLError(a)
              THEN Goto(t, "aws_append",
                        [NewEndpoint(rep[t].id, ProviderAWS)
                            EXCEPT !.address = DecodedURL(a)])
              ELSE Goto(t, "aws_cleanup", rep[t])
    /\ UNCHANGED <<variant, endpoints, counter, now, remote, issued, retired,
                   last, autoVars, clientVars, monVars>>

\* aws.go:190-209: deleteFunction sends the DELETE under the ctx it is given;
\* the function is gone when the provider carried it out.  The status of the
\* answer is not looked at.
DeleteFunction(t, done) ==
    /\ Exchange(t, done)
    /\ remote' = IF done THEN remote \ {rep[t].id} ELSE remote

\* aws.go:62-65: `_ = a.deleteFunction(ctx, functionName)` with the ctx of the
\* Rotate, then Rotate returns the create-URL error.
AwsCleanup(t) ==
    /\ rpc[t] = "aws_cleanup"
    /\ \E done \in BOOLEAN : DeleteFunction(t, done)
    /\ last' = RotateReturned(t, rep[t].id, ErrCreateURL, endpoints, remote')
    /\ Return(t)
    /\ UNCHANGED <<variant, endpoints, counter, now, issued, retired, autoVars,
                   clientVars, monVars>>

\* aws.go:80-89: append under a.mu and return the endpoint.
AwsAppend(t) ==
    /\ rpc[t] = "aws_append"
    /\ AppendBy(t)
    /\ Return(t)
    /\ UNCHANGED <<variant, counter, now, remote, retired, autoVars, clientVars, monVars>>

\* ------------------------------------------------------ AWSController.Retire
\* aws.go:93-96: an endpoint of another provider goes to
\* NoOpController.Retire; else the function is deleted first.
AwsRetire(t, e) ==
    /\ variant = ProviderAWS
    /\ rpc[t] = "idle"
    /\ IF e.provider # ProviderAWS
         THEN /\ LocalRetire(e)
              /\ UNCHANGED <<rpc, rep, rcancel>>
         ELSE /\ Goto(t, "awsr_delete", e)
              /\ UNCHANGED <<endpoints, retired, last>>
    /\ UNCHANGED <<variant, counter, now, remote, issued, autoVars, clientVars, monVars>>

\* aws.go:100-102: deleteFunction; an error is logged and dropped.
AwsDeleteFunction(t) ==
    /\ rpc[t] = "awsr_delete"
    /\ \E done \in BOOLEAN : DeleteFunction(t, done)
    /\ Goto(t, "awsr_remove", rep[t])
    /\ UNCHANGED <<variant, endpoints, counter, now, issued, retired, last,
                   autoVars, clientVars, monVars>>

\* aws.go:104-113: under a.mu remove the endpoint when it is in the list;
\* return nil.
AwsRemove(t) ==
    /\ rpc[t] = "awsr_remove"
    /\ RemoveEndpoint(rep[t].id, ProviderRetireResult)
    /\ Return(t)
    /\ UNCHANGED <<variant, counter, now, remote, issued, autoVars, clientVars, monVars>>

\* A goroutine calls Retire with an endpoint it holds.
NoOpRetireCall(t) == \E e \in RetireArgs : NoOpRetire(t, e)
CfRetireCall(t) == \E e \in RetireArgs : CfRetire(t, e)
AwsRetireCall(t) == \E e \in RetireArgs : AwsRetire(t, e)

\* The local controller under any number of goroutines calling Rotate and
\* Retire while time passes.
NextLocal ==
    \/ NewNoOpController
    \/ Tick
    \/ \E t \in Callers :
        \/ NoOpRotate(t)
        \/ NoOpRetireCall(t)

SpecLocal == Init /\ [][NextLocal]_vars

\* The steps of the Rotate of each variant, and of the Retire of each.
RotateStep(t) ==
    \/ NoOpRotate(t)
    \/ CfRotate(t)
    \/ CfDeployWorker(t)
    \/ CfAppend(t)
    \/ AwsRotate(t)
    \/ AwsCreateFunction(t)
    \/ AwsCreateFunctionURL(t)
    \/ AwsCleanup(t)
    \/ AwsAppend(t)

RetireStep(t) ==
    \/ CfDeleteWorker(t)
    \/ CfRemove(t)
    \/ AwsDeleteFunction(t)
    \/ AwsRemove(t)
    \/ NoOpRetireCall(t)
    \/ CfRetireCall(t)
    \/ AwsRetireCall(t)

NewController ==
    \/ NewNoOpController
    \/ NewCloudflareController
    \/ NewAWSController

\* The three controllers of package rotation under any number of goroutines
\* calling Rotate, in a time span in which the clock reads the same.
NextRace ==
    \/ NewController
    \/ \E t \in Callers : Cancel(t) \/ RotateStep(t)

SpecRace == Init /\ [][NextRace]_vars

\* The same with the goroutines calling Retire as well.
NextRot ==
    \/ NewController
    \/ \E t \in Callers : Cancel(t) \/ RotateStep(t) \/ RetireStep(t)

SpecRot == Init /\ [][NextRot]_vars

\* ------------------------------------------------------------------ claims
\* Goroutine t decides at server.go:142 / server.go:121 in this step.
HdDecides(t) == pc[t] = "hd_enter" /\ pc'[t] # "hd_enter"
HcDecides(t) == pc[t] = "hc_enter" /\ pc'[t] # "hc_enter"

\* C1: a disconnect request decided while the engine is running goes on to
\* stop the engine (it is not answered Conflict), and a Stop that succeeded is
\* answered {status:"disconnected"}; Conflict is answered only when the engine
\* is not running.
C1_DisconnectFollowsEngine ==
    [][\A t \in Threads :
        /\ (HdDecides(t) /\ status = StatusRunning) => pc'[t] = "stop_enter"
        /\ (HdDecides(t) /\ resp'[t].code = HttpConflict) => status # StatusRunning
        /\ (pc[t] = "hd_ret" /\ pc'[t] = "idle" /\ ret[t] = Ok)
              => resp'[t].body = "disconnected"]_vars

\* C2: a connect request decided while the engine is running is answered
\* Conflict and leaves the engine running, an AlreadyRunning from Start is
\* never answered Internal, and a connect decided while the engine is stopped
\* goes on to start it and, when Start succeeded, is answered
\* {status:"connected"}.
C2_ConnectFollowsEngine ==
    [][\A t \in Threads :
        /\ (HcDecides(t) /\ status = StatusRunning)
              => (resp'[t].code = HttpConflict /\ status' = StatusRunning)
        /\ (pc[t] = "hc_ret" /\ pc'[t] = "idle" /\ ret[t] = ErrAlreadyRunning)
              => resp'[t].code # HttpInternal
        /\ (HcDecides(t) /\ status = StatusStopped) => pc'[t] = "start_enter"
        /\ (pc[t] = "hc_ret" /\ pc'[t] = "idle" /\ ret[t] = Ok)
              => resp'[t].body = "connected"]_vars

\* C3: the status verb reads the stored engine state when it is served, and
\* the connected flag of its response is TRUE exactly when that state is
\* running, whatever s.connected holds.
C3_StatusConnectedIsLive ==
    [][\A t \in Threads :
        /\ (ctx[t] = "hstatus" /\ pc[t] = "status_read" /\ pc'[t] = "hs_respond")
              => ret'[t] = status
        /\ (pc[t] = "hs_respond" /\ pc'[t] = "idle")
              => /\ resp'[t].verb = "status"
                 /\ resp'[t].status = ret[t]
                 /\ resp'[t].connected = (ret[t] = StatusRunning)]_vars

\* A status response that says connected while s.connected is FALSE.
C3_Witness ==
    \E t \in Threads :
        resp[t].verb = "status" /\ resp[t].connected /\ ~connected

\* Goroutine t passes engine.go:115 / engine.go:179 in this step.
StartEnters(t) == pc[t] = "start_enter" /\ pc'[t] # "start_enter"
StopEnters(t) == pc[t] = "stop_enter" /\ pc'[t] # "stop_enter"

\* C4: Start on a running engine returns AlreadyRunning and changes nothing:
\* the state stays running, the owned Instance is the same, no Instance is
\* loaded or started and no step (build, load, Instance.Start) is invoked.
C4_StartOnRunning ==
    [][\A t \in Threads :
        (StartEnters(t) /\ status = StatusRunning)
           => /\ ret'[t] = ErrAlreadyRunning
              /\ steps'[t] = <<>>
              /\ status' = StatusRunning
              /\ UNCHANGED <<instance, instState, closes, jsonCached, stopCh, trig>>]_vars

C4_Witness ==
    \E t \in Threads :
        /\ pc[t] = "idle" /\ ret[t] = ErrAlreadyRunning /\ steps[t] = <<>>
        /\ status = StatusRunning /\ instance # 0

\* C5: Stop on an engine whose state is not running (stopped, or error after
\* a failed Start) returns NotRunning and leaves the state, the Instance
\* handle and the stop channel as they were: no Close, no close(stopCh).
C5_StopOnNotRunning ==
    [][\A t \in Threads :
        (StopEnters(t) /\ status # StatusRunning)
           => /\ ret'[t] = ErrNotRunning
              /\ UNCHANGED <<status, instance, stopCh, trig, closes, instState>>]_vars

C5_Witness ==
    \E t \in Threads :
        pc[t] = "idle" /\ ret[t] = ErrNotRunning /\ status = StatusError

IsPrefix(a, b) == Len(a) <= Len(b) /\ \A i \in 1..Len(a) : a[i] = b[i]
AllSteps == <<"build", "load", "start">>
StepsUpTo(err) ==
    CASE err = ErrBuild -> <<"build">>
      [] err = ErrLoad -> <<"build", "load">>
      [] err = ErrInstStart -> AllSteps

\* C6: the steps of Start run in the order build, load, Instance.Start; a
\* step that fails makes Start return its error with the state error and no
\* later step invoked; the state becomes running only in the step in which
\* Instance.Start succeeds after build and load did.
C6_StartStepOrder ==
    [][\A t \in Threads :
        /\ IsPrefix(steps'[t], AllSteps)
        /\ (ret'[t] # ret[t] /\ ret'[t] \in StepErrors)
              => (status' = StatusError /\ steps'[t] = StepsUpTo(ret'[t]))
        /\ (ret'[t] # ret[t] /\ ret'[t] = Ok /\ pc[t] = "start_inst")
              => (status' = StatusRunning /\ steps'[t] = AllSteps)
        /\ (status' = StatusRunning /\ status # StatusRunning)
              => \E u \in Threads :
                    pc[u] = "start_inst" /\ ret'[u] = Ok /\ steps'[u] = AllSteps]_vars

C6_Witness ==
    \E t \in Threads :
        /\ pc[t] = "idle" /\ ret[t] = ErrLoad /\ steps[t] = <<"build", "load">>
        /\ status = StatusError

\* C7: Stop on a running engine calls Close on the owned Instance exactly
\* once and returns success with the state stopped, no Instance owned and an
\* untriggered stop channel, also when Close returned an error; so the engine
\* can be started again.
C7_StopClosesOnce ==
    [][/\ \A t \in Threads :
            (pc[t] = "stop_finish" /\ pc'[t] # "stop_finish")
               => /\ instance # 0 /\ closes[instance] = 1
                  /\ instState[instance] = "closed"
                  /\ ret'[t] = Ok
                  /\ status' = StatusStopped
                  /\ instance' = 0
                  /\ trig'[stopCh'] = 0
       /\ \A i \in InstIds : closes'[i] <= 1]_vars

\* Two runs were started and stopped; the last Close returned an error.
C7_Witness ==
    /\ \A i \in 1..2 : instState[i] = "closed" /\ closes[i] = 1
    /\ status = StatusStopped
    /\ \E t \in Threads : pc[t] = "idle" /\ ret[t] = Ok /\ closeErr[t]

StopInWindow == \E t \in Threads : pc[t] \in {"stop_closeinst", "stop_finish"}

\* C8: an observer that obtained the stop channel during a run finds it
\* closed once the Stop ending that run closed the Instance; the channel the
\* engine holds outside the close-to-replace window of a Stop is untriggered;
\* no channel is closed twice.
C8_StopSignal ==
    /\ (obsRun # 0 /\ instState[obsRun] = "closed") => trig[obs] = 1
    /\ ~StopInWindow => trig[stopCh] = 0
    /\ \A c \in ChanIds : trig[c] <= 1

C8_Witness ==
    /\ obsRun # 0 /\ instState[obsRun] = "closed" /\ trig[obs] = 1
    /\ ~StopInWindow /\ stopCh # obs /\ trig[stopCh] = 0
    /\ status = StatusRunning

InCritical == {t \in Threads : pc[t] \in
                 {"start_build", "start_load", "start_inst",
                  "stop_closech", "stop_closeinst", "stop_finish"}}
Serialized ==
    /\ Cardinality(InCritical) <= 1
    /\ Cardinality({i \in InstIds : instState[i] = "started"}) <= 1
BatchDone(b) == b # {} /\ \A t \in b : ret[t] # "none"
Winners(b) == {t \in b : ret[t] = Ok}
StopBatchOk ==
    BatchDone(stopBatch)
       => /\ Cardinality(Winners(stopBatch)) = 1
          /\ \A t \in stopBatch \ Winners(stopBatch) : ret[t] = ErrNotRunning

\* C9 as stated: at most one goroutine is inside Start or Stop, at most one
\* Instance is started and not closed, of the Stop calls pending on a running
\* engine exactly one succeeds, and of several Start calls pending on a
\* stopped engine exactly one succeeds and the others get AlreadyRunning.
C9_Original ==
    /\ Serialized
    /\ StopBatchOk
    /\ (BatchDone(startBatch) /\ Cardinality(startBatch) >= 2)
          => /\ Cardinality(Winners(startBatch)) = 1
             /\ \A t \in startBatch \ Winners(startBatch) :
                   ret[t] = ErrAlreadyRunning

\* C9 amended: as above, but of the Start calls pending on a stopped engine
\* at most one succeeds, exactly one when no build, load or Instance.Start
\* step of theirs failed, and each of the others gets AlreadyRunning or the
\* error of its own failed step.
C9_Serialized ==
    /\ Serialized
    /\ StopBatchOk
    /\ BatchDone(startBatch)
          => /\ Cardinality(Winners(startBatch)) <= 1
             /\ \A t \in startBatch \ Winners(startBatch) :
                   ret[t] \in {ErrAlreadyRunning} \cup StepErrors
             /\ (\A t \in startBatch : ret[t] \notin StepErrors)
                   => Cardinality(Winners(startBatch)) = 1

C9_Witness ==
    /\ BatchDone(startBatch) /\ Cardinality(startBatch) >= 2
    /\ Cardinality(Winners(startBatch)) = 1
    /\ \E t \in startBatch : ret[t] = ErrAlreadyRunning

\* C10: a Status call that is pending while a Start or Stop is in its middle
\* (the stored state is starting or stopping) can return at once.
C10_StatusDuringTransition ==
    \A t \in Threads :
        (pc[t] = "status_read" /\ status \in {StatusStarting, StatusStopping})
           => ENABLED StatusRead(t)

\* ----------------------------------------------------- StartAutoRotation
\* The variables the calls of Rotate and Retire by other goroutines use.
callVars == <<rpc, rep, rcancel>>

\* The goroutine StartAutoRotation spawns next.
NextTask == CHOOSE k \in Tasks : tpc[k] = "none" /\ \A j \in 1..(k - 1) : tpc[j] # "none"

\* The goroutines that run: spawned and not returned.
Running == {k \in Tasks : tpc[k] \notin {"none", "done"}}

\* aws.go:353-385 (the method of the NoOpController, which the CDN-worker and
\* serverless variants get by embedding it) and akash/controller.go:174-213:
\* spawn a goroutine with a ticker and return nil.
StartAutoRotation ==
    /\ variant # "none"
    /\ rpc[Host] = "idle"
    /\ \E k \in Tasks : tpc[k] = "none"
    /\ tpc' = [tpc EXCEPT ![NextTask] = "loop"]
    /\ starts' = starts + 1
    /\ rotBy' = {}
    /\ UNCHANGED <<variant, endpoints, counter, now, remote, callVars, issued,
                   retired, last, cstopCh, cclosed, tch, actx, pend, stops,
                   halted, late, clientVars, monVars>>

\* The ctx given to StartAutoRotation is cancelled.
CancelAuto ==
    /\ starts > 0
    /\ ~actx
    /\ actx' = TRUE
    /\ UNCHANGED <<variant, endpoints, counter, now, remote, callVars, issued,
                   retired, last, cstopCh, cclosed, tpc, tch, pend, starts,
                   stops, halted, rotBy, late, clientVars, monVars>>

\* aws.go:360-366, akash/controller.go:181-187: the goroutine enters the
\* select; the channel operand c.stopCh is evaluated now.  The read is not
\* under c.mu and races with the store of StopAutoRotation; the word-sized
\* load yields the channel stored before or after it, the value of cstopCh
\* in the state the step is taken in.
TaskSelect(k) ==
    /\ tpc[k] = "loop"
    /\ tch' = [tch EXCEPT ![k] = cstopCh]
    /\ tpc' = [tpc EXCEPT ![k] = "select"]
    /\ UNCHANGED <<variant, endpoints, counter, now, remote, callVars, issued,
                   retired, last, cstopCh, cclosed, actx, pend, starts, stops,
                   halted, rotBy, late, clientVars, monVars>>

\* aws.go:362-365, akash/controller.go:183-186: the select takes the case of
\* ctx.Done() or of the channel it waits on, and the goroutine returns.
TaskReturn(k) ==
    /\ tpc[k] = "select"
    /\ actx \/ tch[k] \in cclosed
    /\ tpc' = [tpc EXCEPT ![k] = "done"]
    /\ tch' = [tch EXCEPT ![k] = 0]
    /\ UNCHANGED <<variant, endpoints, counter, now, remote, callVars, issued,
                   retired, last, cstopCh, cclosed, actx, pend, starts, stops,
                   halted, rotBy, late, clientVars, monVars>>

\* Goroutine k begins a Rotate.
RotateBy(k) ==
    /\ rotBy' = rotBy \cup {k}
    /\ late' = (late \/ k \in halted)

\* aws.go:366-369: the select takes the case of the ticker (among the cases
\* that are ready the choice is arbitrary) and the goroutine calls c.Rotate
\* with c the *NoOpController: NoOpController.Rotate, whatever the variant.
NoOpTick(k) ==
    /\ variant \in {ProviderNoOp, ProviderCloudflare, ProviderAWS}
    /\ tpc[k] = "select"
    /\ counter < MaxTicks
    /\ LocalRotate
    /\ RotateBy(k)
    /\ tpc' = [tpc EXCEPT ![k] = "scan"]
    /\ UNCHANGED <<variant, now, remote, callVars, retired, cstopCh, cclosed,
                   tch, actx, pend, starts, stops, halted, clientVars, monVars>>

\* aws.go:371-379: under c.mu.RLock, a `go c.Retire(ctx, ep)` for every
\* endpoint of the list that is expired.  Goroutines pending for the same
\* endpoint are one element of pend: all but the first of them to run find
\* nothing to remove.
NoOpScan(k) ==
    /\ tpc[k] = "scan"
    /\ pend' = pend \cup {endpoints[j].id :
                           j \in {i \in 1..Len(endpoints) : IsExpired(endpoints[i])}}
    /\ tpc' = [tpc EXCEPT ![k] = "loop"]
    /\ UNCHANGED <<variant, endpoints, counter, now, remote, callVars, issued,
                   retired, last, cstopCh, cclosed, tch, actx, starts, stops,
                   halted, rotBy, late, clientVars, monVars>>

\* akash/controller.go:57-128, all of it under c.mu, as one step: count,
\* deploy, wait for the lease, fetch the credentials, append the endpoint; or
\* count and return the error of a Deploy that failed.  The sequence number
\* the provider gives the deployment is taken to be the counter.  (What
\* Rotate does when a later provider step fails is in the steps of
\* AkashDeploy, AkashWaitForLease and AkashAddress below.)
AkashRotate(ok) ==
    /\ counter' = NextCounter
    /\ IF ok
         THEN AppendEndpoint(NewEndpoint(AkashId(NextCounter), ProviderAkash))
         ELSE /\ last' = Returned("rotate", AkashId(NextCounter), ErrAkash,
                                  endpoints, remote)
              /\ UNCHANGED <<endpoints, issued>>

\* akash/controller.go:187-193: the select takes the case of the ticker and
\* the goroutine calls c.Rotate; on an error it goes back to the select.
AkashTick(k) ==
    /\ variant = ProviderAkash
    /\ tpc[k] = "select"
    /\ counter < MaxTicks
    /\ \E ok \in BOOLEAN :
         /\ AkashRotate(ok)
         /\ tpc' = [tpc EXCEPT ![k] = IF ok THEN "keep" ELSE "loop"]
    /\ RotateBy(k)
    /\ UNCHANGED <<variant, now, remote, callVars, retired, cstopCh, cclosed,
                   tch, actx, pend, starts, stops, halted, clientVars, monVars>>

\* The number of endpoints the goroutine of the Akash controller keeps
\* (akash/controller.go:197).
KeepLast == 2

\* akash/controller.go:196-203: under c.mu, a `go c.Retire(ctx, oldEp)` for
\* the first endpoint of the list when the list is longer than two.
AkashKeep(k) ==
    /\ tpc[k] = "keep"
    /\ pend' = IF Len(endpoints) > KeepLast THEN pend \cup {endpoints[1].id} ELSE pend
    /\ tpc' = [tpc EXCEPT ![k] = "loop"]
    /\ UNCHANGED <<variant, endpoints, counter, now, remote, callVars, issued,
                   retired, last, cstopCh, cclosed, tch, actx, starts, stops,
                   halted, rotBy, late, clientVars, monVars>>

\* A goroutine spawned for the Retire of the endpoint with id i runs:
\* NoOpController.Retire (aws.go:325-338) or the Retire of the Akash
\* controller (akash/controller.go:131-157), which finds the deployment
\* exactly when the endpoint is in the list, closes it (an error is logged and
\* dropped) and removes the endpoint.  What it returns is dropped.
AsyncRetire ==
    /\ \E i \in pend :
         /\ pend' = pend \ {i}
         /\ RemoveEndpoint(i, LocalRetireResult(i))
    /\ UNCHANGED <<variant, counter, now, remote, callVars, issued, cstopCh,
                   cclosed, tpc, tch, actx, starts, stops, halted, rotBy, late,
                   clientVars, monVars>>

\* ------------------------------------------------------ StopAutoRotation
\* aws.go:388, akash/controller.go:217: close(c.stopCh).
StopClose ==
    /\ variant # "none"
    /\ rpc[Host] = "idle"
    /\ stops < MaxStops
    /\ cclosed' = cclosed \cup {cstopCh}
    /\ rpc' = [rpc EXCEPT ![Host] = "stop_make"]
    /\ UNCHANGED <<variant, endpoints, counter, now, remote, rep, rcancel,
                   issued, retired, last, cstopCh, tpc, tch, actx, pend, starts,
                   stops, halted, rotBy, late, clientVars, monVars>>

\* aws.go:389-391, akash/controller.go:218-220: c.stopCh = make(chan
\* struct{}), not under c.mu, and StopAutoRotation returns.
StopMake ==
    /\ rpc[Host] = "stop_make"
    /\ cstopCh' = cstopCh + 1
    /\ stops' = stops + 1
    /\ halted' = halted \cup Running
    /\ rpc' = [rpc EXCEPT ![Host] = "idle"]
    /\ UNCHANGED <<variant, endpoints, counter, now, remote, rep, rcancel,
                   issued, retired, last, cclosed, tpc, tch, actx, pend, starts,
                   rotBy, late, clientVars, monVars>>

\* A controller whose owner (the goroutine Host) starts and stops the
\* automatic rotation and calls nothing else, while time passes.
NextAuto ==
    \/ NewController
    \/ NewAkashController
    \/ Tick
    \/ StartAutoRotation
    \/ CancelAuto
    \/ StopClose
    \/ StopMake
    \/ \E k \in Tasks :
        \/ TaskSelect(k)
        \/ TaskReturn(k)
        \/ NoOpTick(k)
        \/ NoOpScan(k)
        \/ AkashTick(k)
        \/ AkashKeep(k)
    \/ AsyncRetire

SpecAuto == Init /\ [][NextAuto]_vars

\* ----------------------------------------------------------- HealthChecker
\* The goroutine Start spawns next.
NextMonitor == CHOOSE k \in Tasks : mpc[k] = "none" /\ \A j \in 1..(k - 1) : mpc[j] # "none"

\* The goroutines of Start that run: spawned and not returned.
Monitoring == {k \in Tasks : mpc[k] \notin {"none", "done"}}

\* health.go:53-74: Start spawns a goroutine with a ticker and returns.
MonStart ==
    /\ mhost = "idle"
    /\ \E k \in Tasks : mpc[k] = "none"
    /\ mpc' = [mpc EXCEPT ![NextMonitor] = "loop"]
    /\ UNCHANGED <<hstopCh, hclosed, mch, mctx, mhost, rounds, mstops, mhalted,
                   mlate, ctlVars, clientVars, prbVars>>

\* The ctx given to Start is cancelled.
MonCancel ==
    /\ Monitoring # {}
    /\ ~mctx
    /\ mctx' = TRUE
    /\ UNCHANGED <<hstopCh, hclosed, mpc, mch, mhost, rounds, mstops, mhalted,
                   mlate, ctlVars, clientVars, prbVars>>

\* health.go:58-64: the goroutine enters the select; the channel operand
\* hc.stopCh is evaluated now.  The read is not under hc.mu and races with
\* the store of Stop; the word-sized load yields the channel stored before or
\* after it, the value of hstopCh in the state the step is taken in.
MonSelect(k) ==
    /\ mpc[k] = "loop"
    /\ mch' = [mch EXCEPT ![k] = hstopCh]
    /\ mpc' = [mpc EXCEPT ![k] = "select"]
    /\ UNCHANGED <<hstopCh, hclosed, mctx, mhost, rounds, mstops, mhalted,
                   mlate, ctlVars, clientVars, prbVars>>

\* health.go:60-63: the select takes the case of ctx.Done() or of the channel
\* it waits on, and the goroutine returns.
MonReturn(k) ==
    /\ mpc[k] = "select"
    /\ mctx \/ mch[k] \in hclosed
    /\ mpc' = [mpc EXCEPT ![k] = "done"]
    /\ mch' = [mch EXCEPT ![k] = 0]
    /\ UNCHANGED <<hstopCh, hclosed, mctx, mhost, rounds, mstops, mhalted,
                   mlate, ctlVars, clientVars, prbVars>>

\* health.go:64-65, 95-96: the select takes the case of the ticker (among
\* the cases that are ready the choice is arbitrary) and the goroutine
\* begins a probe round, checkAll.
MonCheckAll(k) ==
    /\ mpc[k] = "select"
    /\ rounds < MaxTicks
    /\ rounds' = rounds + 1
    /\ mlate' = (mlate \/ k \in mhalted)
    /\ mpc' = [mpc EXCEPT ![k] = "round"]
    /\ UNCHANGED <<hstopCh, hclosed, mch, mctx, mhost, mstops, mhalted, ctlVars,
                   clientVars, prbVars>>

\* A goroutine inside a Retire or Rotate of the Akash controller holds c.mu
\* from the first to the last statement, the calls to the provider included
\* (akash/controller.go:57-58, 132-133).
Held == \E g \in hgo : g.pc \in {"retiring", "rotating"}

\* A goroutine of Start is at the call of ActiveEndpoints and cannot get
\* c.mu.RLock (akash/controller.go:161) while a spawned goroutine holds c.mu.
Waiting(k) == mpc[k] = "round" /\ Held

\* health.go:96: endpoints := hc.controller.ActiveEndpoints(), which takes
\* the read lock of the controller where it has one.
MonActive(k) ==
    /\ mpc[k] = "round"
    /\ ~Held
    /\ mlist' = [mlist EXCEPT ![k] = ActiveEndpoints]
    /\ mpc' = [mpc EXCEPT ![k] = "iter"]
    /\ UNCHANGED <<hstopCh, hclosed, mch, mctx, mhost, rounds, mstops, mhalted,
                   mlate, results, mres, hgo, streak, hlast, ctlVars, clientVars>>

\* health.go:128-139: checkEndpoint for the next endpoint of the round makes
\* a result and, under hc.mu.RLock, copies the FailCount of the stored result
\* when there is one.
MonReadPrev(k) ==
    /\ mpc[k] = "iter"
    /\ mlist[k] # <<>>
    /\ mres' = [mres EXCEPT ![k] =
                   IF Head(mlist[k]).id \in DOMAIN results
                     THEN results[Head(mlist[k]).id].count
                     ELSE 0]
    /\ mpc' = [mpc EXCEPT ![k] = "probe"]
    /\ UNCHANGED <<hstopCh, hclosed, mch, mctx, mhost, rounds, mstops, mhalted,
                   mlate, results, mlist, hgo, streak, hlast, ctlVars, clientVars>>

\* What a probe can meet at the address: no connection within the timeout,
\* or a server that answers an HTTPS GET with a status.
NoConnection == "no connection"
ProbeAnswers == {NoConnection, "200", "404", "503"}

\* health.go:141-180, 185-213: endpoints of the CDN-worker and serverless
\* providers are probed with an HTTPS GET, which fails without a connection
\* and on a status of 500 or more; all others with a TCP connect.
ProbeOK(e, a) ==
    IF e.provider \in {ProviderCloudflare, ProviderAWS}
      THEN a \in {"200", "404"}
      ELSE a # NoConnection

\* health.go:147-155 (159-167, 171-179): the result after the probe: on an
\* error FailCount++ and not healthy, else FailCount = 0 and healthy.
FailCountAfter_mut(prev, ok) == IF ok THEN prev ELSE prev + 1
FailCountAfter(prev, ok) == IF ok THEN 0 ELSE prev + 1
ResultOf(prev, ok) == [healthy |-> ok, count |-> FailCountAfter(prev, ok)]

\* health.go:112: the FailCount from which checkAll spawns the goroutine.
TriggerAt == 3

\* health.go:108-121: a result that is not healthy with a FailCount of at
\* least three spawns a goroutine for Retire and Rotate.
Triggers_mut(r) == ~r.healthy /\ r.count >= TriggerAt - 1
Triggers(r) == ~r.healthy /\ r.count >= TriggerAt

\* m with the value v at key i.
Put(m, i, v) == [j \in DOMAIN m \cup {i} |-> IF j = i THEN v ELSE m[j]]

\* health.go:99-122: the probe ends, the result is stored under hc.mu and,
\* from three failures in a row on, a goroutine is spawned that will call
\* Retire and then Rotate; the round goes on with the next endpoint.
MonStore(k) ==
    /\ mpc[k] = "probe"
    /\ \E a \in ProbeAnswers :
         LET e == Head(mlist[k])
             r == ResultOf(mres[k], ProbeOK(e, a))
             was == IF e.id \in DOMAIN streak THEN streak[e.id] ELSE 0
         IN /\ results' = Put(results, e.id, r)
            /\ streak' = Put(streak, e.id, IF r.healthy THEN 0 ELSE was + 1)
            /\ hgo' = IF Triggers(r)
                        THEN hgo \cup {[ep |-> e, pc |-> "retire", at |-> r.count]}
                        ELSE hgo
            /\ hlast' = [prev |-> mres[k], count |-> r.count,
                         healthy |-> r.healthy, spawned |-> Triggers(r)]
    /\ mlist' = [mlist EXCEPT ![k] = Tail(mlist[k])]
    /\ mres' = [mres EXCEPT ![k] = 0]
    /\ mpc' = [mpc EXCEPT ![k] = "iter"]
    /\ UNCHANGED <<hstopCh, hclosed, mch, mctx, mhost, rounds, mstops, mhalted,
                   mlate, ctlVars, clientVars>>

\* health.go:98, 124: no endpoint is left; checkAll returns and the
\* goroutine is back at the top of its loop.
MonRoundDone(k) ==
    /\ mpc[k] = "iter"
    /\ mlist[k] = <<>>
    /\ mpc' = [mpc EXCEPT ![k] = "loop"]
    /\ UNCHANGED <<hstopCh, hclosed, mch, mctx, mhost, rounds, mstops, mhalted,
                   mlate, ctlVars, clientVars, prbVars>>

\* health.go:78: close(hc.stopCh).
MonStopClose ==
    /\ mhost = "idle"
    /\ mstops < MaxStops
    /\ hclosed' = hclosed \cup {hstopCh}
    /\ mhost' = "stop_make"
    /\ UNCHANGED <<hstopCh, mpc, mch, mctx, rounds, mstops, mhalted, mlate,
                   ctlVars, clientVars, prbVars>>

\* health.go:79-80: hc.stopCh = make(chan struct{}), not under hc.mu, and
\* Stop returns.
MonStopMake ==
    /\ mhost = "stop_make"
    /\ hstopCh' = hstopCh + 1
    /\ mstops' = mstops + 1
    /\ mhalted' = mhalted \cup Monitoring
    /\ mhost' = "idle"
    /\ UNCHANGED <<hclosed, mpc, mch, mctx, rounds, mlate, ctlVars, clientVars, prbVars>>

\* A HealthChecker whose owner starts and stops it.
NextHealth ==
    \/ MonStart
    \/ MonCancel
    \/ MonStopClose
    \/ MonStopMake
    \/ \E k \in Tasks :
        \/ MonSelect(k)
        \/ MonReturn(k)
        \/ MonCheckAll(k)
        \/ MonActive(k)
        \/ MonRoundDone(k)

SpecHealth == Init /\ [][NextHealth]_vars

\* ------------------------------------- the goroutines checkAll spawns
\* The spawned goroutine g goes on to position p.
Move(g, p) == hgo' = (hgo \ {g}) \cup {[g EXCEPT !.pc = p]}

\* health.go:118: the spawned goroutine calls hc.controller.Retire(ctx, ep)
\* and drops what it returns.  NoOpController.Retire is one critical section
\* (aws.go:325-338); the Retire of the Akash controller takes c.mu and, when
\* it knows the deployment, keeps it over CloseDeployment
\* (akash/controller.go:131-145).
TrigRetire ==
    /\ \E g \in hgo :
         /\ g.pc = "retire"
         /\ ~Held
         /\ IF variant = ProviderAkash /\ IndexOf(g.ep.id) # 0
              THEN /\ Move(g, "retiring")
                   /\ UNCHANGED <<endpoints, retired, last>>
              ELSE /\ LocalRetire(g.ep)
                   /\ Move(g, "rotate")
    /\ UNCHANGED <<variant, counter, now, remote, callVars, issued, autoVars,
                   clientVars, hstopCh, hclosed, mpc, mch, mctx, mhost, rounds,
                   mstops, mhalted, mlate, results, mlist, mres, streak, hlast>>

\* akash/controller.go:142-156: CloseDeployment returned (an error is logged
\* and dropped), the endpoint is removed, c.mu is released and Retire
\* returns nil.
TrigRetired ==
    /\ \E g \in hgo :
         /\ g.pc = "retiring"
         /\ LocalRetire(g.ep)
         /\ Move(g, "rotate")
    /\ UNCHANGED <<variant, counter, now, remote, callVars, issued, autoVars,
                   clientVars, hstopCh, hclosed, mpc, mch, mctx, mhost, rounds,
                   mstops, mhalted, mlate, results, mlist, mres, streak, hlast>>

\* health.go:119: after Retire returned the goroutine calls
\* hc.controller.Rotate(ctx).  NoOpController.Rotate is one critical section
\* (aws.go:302-323) after which the goroutine ends; the Rotate of the Akash
\* controller takes c.mu and goes to the provider
\* (akash/controller.go:57-68).
TrigRotate ==
    /\ counter < MaxRot
    /\ \E g \in hgo :
         /\ g.pc = "rotate"
         /\ ~Held
         /\ IF variant = ProviderAkash
              THEN /\ Move(g, "rotating")
                   /\ UNCHANGED <<endpoints, counter, issued, last>>
              ELSE /\ LocalRotate
                   /\ hgo' = hgo \ {g}
    /\ UNCHANGED <<variant, now, remote, callVars, retired, autoVars,
                   clientVars, hstopCh, hclosed, mpc, mch, mctx, mhost, rounds,
                   mstops, mhalted, mlate, results, mlist, mres, streak, hlast>>

\* akash/controller.go:66-127: Deploy, WaitForLease and GetCredentials are
\* over; the endpoint is appended or an error returned, c.mu is released and
\* the goroutine ends.
TrigRotated ==
    /\ \E g \in hgo :
         /\ g.pc = "rotating"
         /\ hgo' = hgo \ {g}
    /\ \E ok \in BOOLEAN : AkashRotate(ok)
    /\ UNCHANGED <<variant, now, remote, callVars, retired, autoVars,
                   clientVars, hstopCh, hclosed, mpc, mch, mctx, mhost, rounds,
                   mstops, mhalted, mlate, results, mlist, mres, streak, hlast>>

\* The owner of the Akash controller calls Rotate
\* (akash/controller.go:57-128), all of it under c.mu.
AkashRotateCall(t) ==
    /\ variant = ProviderAkash
    /\ rpc[t] = "idle"
    /\ counter < MaxRot
    /\ ~Held
    /\ \E ok \in BOOLEAN : AkashRotate(ok)
    /\ UNCHANGED <<variant, now, remote, callVars, retired, autoVars,
                   clientVars, monVars>>

\* A HealthChecker over the local or the Akash controller, whose owner calls
\* Rotate and Start.
NextProbe ==
    \/ NewNoOpController
    \/ NewAkashController
    \/ \E t \in Callers :
        \/ NoOpRotate(t)
        \/ AkashRotateCall(t)
    \/ MonStart
    \/ \E k \in Tasks :
        \/ MonSelect(k)
        \/ MonCheckAll(k)
        \/ MonActive(k)
        \/ MonReadPrev(k)
        \/ MonStore(k)
        \/ MonRoundDone(k)
    \/ TrigRetire
    \/ TrigRetired
    \/ TrigRotate
    \/ TrigRotated

SpecProbe == Init /\ [][NextProbe]_vars

\* ----------------------------------------- akash Controller.Rotate, by steps
\* What is left of a goroutine that reads a field through a nil pointer: a
\* panic, which nothing in the repository recovers; the process ends.
Panic == "panic: nil pointer dereference"
ErrNoAddress == "no address available from deployment"
ErrNoDeployment == "deployment not found for endpoint"

\* The process has ended with a panic.
Crashed == last.ret = Panic

\* A goroutine is inside Rotate or Retire of the Akash controller and holds
\* c.mu (akash/controller.go:57-58, 132-133).
AkashHeld == \E u \in Callers : rpc[u] # "idle"

\* akash/controller.go:57-70: take c.mu, count, Deploy.  A Deploy that fails
\* has created nothing and Rotate returns its error; else the deployment
\* exists at the provider.
AkashDeploy(t) ==
    /\ variant = ProviderAkash
    /\ ~Crashed
    /\ rpc[t] = "idle"
    /\ ~AkashHeld
    /\ counter < MaxRot
    /\ counter' = NextCounter
    /\ \E ok \in BOOLEAN :
         IF ok
           THEN /\ remote' = remote \cup {AkashId(NextCounter)}
                /\ Goto(t, "ak_lease", NewEndpoint(AkashId(NextCounter), ProviderAkash))
                /\ UNCHANGED last
           ELSE /\ last' = Returned("rotate", AkashId(NextCounter), ErrAkash,
                                    endpoints, remote)
                /\ UNCHANGED <<remote, rpc, rep, rcancel>>
    /\ UNCHANGED <<variant, endpoints, now, issued, retired, autoVars,
                   clientVars, monVars>>

\* part_007:220-251: WaitForLease returns the deployment with its lease, or,
\* when its ctx is done first, nil and an error (part_007:231-232).
WaitForLease(d, ok) == IF ok THEN d ELSE NoEndpoint

\* akash/controller.go:73-78: deployInfo, err = WaitForLease(...).  On an
\* error Rotate reads deployInfo.DSeq for the CloseDeployment, and deployInfo
\* is the nil that WaitForLease returned: the goroutine panics, the deferred
\* Unlock runs, no CloseDeployment is sent and Rotate returns nothing.
AkashWaitForLease(t) ==
    /\ rpc[t] = "ak_lease"
    /\ \E ok \in BOOLEAN :
         /\ Exchange(t, ok)
         /\ IF WaitForLease(rep[t], ok) # NoEndpoint
              THEN /\ Goto(t, "ak_address", WaitForLease(rep[t], ok))
                   /\ UNCHANGED last
              ELSE /\ last' = RotateReturned(t, rep[t].id, Panic, endpoints, remote)
                   /\ Return(t)
    /\ UNCHANGED <<variant, endpoints, counter, now, remote, issued, retired,
                   autoVars, clientVars, monVars>>

\* Client.CloseDeployment (part_007) as called at akash/controller.go:97 and
\* 142, under the ctx of the call; its error is dropped.
CloseDeployment(t, done) ==
    /\ Exchange(t, done)
    /\ remote' = IF done THEN remote \ {rep[t].id} ELSE remote

\* akash/controller.go:81-127: the credentials (defaults when they cannot be
\* fetched) and the address; without an address the deployment is closed and
\* an error returned, else the endpoint is appended and returned.
AkashAddress(t) ==
    /\ rpc[t] = "ak_address"
    /\ \E address \in BOOLEAN :
         IF address
           THEN /\ AppendBy(t)
                /\ UNCHANGED remote
           ELSE /\ \E done \in BOOLEAN : CloseDeployment(t, done)
                /\ last' = RotateReturned(t, rep[t].id, ErrNoAddress, endpoints, remote')
                /\ UNCHANGED <<endpoints, issued>>
    /\ Return(t)
    /\ UNCHANGED <<variant, counter, now, retired, autoVars, clientVars, monVars>>

\* akash/controller.go:131-139: Retire takes c.mu and looks the deployment
\* up; c.deployments has the ids of c.endpoints as its keys.
AkashRetire(t, e) ==
    /\ variant = ProviderAkash
    /\ ~Crashed
    /\ rpc[t] = "idle"
    /\ ~AkashHeld
    /\ IF IndexOf(e.id) = 0
         THEN /\ last' = Returned("retire", e.id, ErrNoDeployment, endpoints, remote)
              /\ UNCHANGED <<rpc, rep, rcancel>>
         ELSE /\ Goto(t, "ak_close", e)
              /\ UNCHANGED last
    /\ UNCHANGED <<variant, endpoints, counter, now, remote, issued, retired,
                   autoVars, clientVars, monVars>>

\* akash/controller.go:141-156: CloseDeployment (an error is logged and
\* dropped), the deployment and the endpoint are removed, Retire returns nil.
AkashClose(t) ==
    /\ rpc[t] = "ak_close"
    /\ \E done \in BOOLEAN : CloseDeployment(t, done)
    /\ IF IndexOf(rep[t].id) # 0
         THEN /\ endpoints' = Without(IndexOf(rep[t].id))
              /\ retired' = retired \cup {rep[t].id}
         ELSE UNCHANGED <<endpoints, retired>>
    /\ last' = Returned("retire", rep[t].id, Ok,
                        IF IndexOf(rep[t].id) # 0 THEN Without(IndexOf(rep[t].id))
                        ELSE endpoints,
                        remote')
    /\ Return(t)
    /\ UNCHANGED <<variant, counter, now, issued, autoVars, clientVars, monVars>>

AkashRetireCall(t) == \E e \in RetireArgs : ~Crashed /\ AkashRetire(t, e)

\* The goroutines of the owner call Rotate and Retire of an Akash controller;
\* the ctx of a call can be cancelled while it runs; nothing happens after a
\* panic.
AkashCancel(t) == ~Crashed /\ Cancel(t)

NextAkash ==
    \/ NewAkashController
    \/ \E t \in Callers :
        \/ AkashCancel(t)
        \/ AkashDeploy(t)
        \/ AkashWaitForLease(t)
        \/ AkashAddress(t)
        \/ AkashRetireCall(t)
        \/ AkashClose(t)

SpecAkash == Init /\ [][NextAkash]_vars

\* ============================================== the list in memory
\* c.endpoints is a Go slice: a pointer into a backing array and a length,
\* the capacity being what the array holds from there.  Rotate appends
\* (aws.go:317, akash/controller.go:120), Retire removes with
\* append(c.endpoints[:i], c.endpoints[i+1:]...) (aws.go:331,
\* akash/controller.go:149), which moves the tail one slot down inside the
\* same array, and ActiveEndpoints fills a slice it made itself (aws.go:344,
\* akash/controller.go:164).  Whether a slice handed out earlier sees a later
\* Rotate or Retire depends on which array it points into, so the arrays are
\* followed here: heap[a] is what array a holds, slot by slot, an array no
\* slice points into being empty.

CapOf(h, s) == IF s.arr = 0 THEN 0 ELSE Len(h[s.arr])
ContentIn(h, s) == IF s.arr = 0 THEN <<>> ELSE SubSeq(h[s.arr], 1, s.len)
Content(s) == ContentIn(heap, s)

\* The arrays some slice points into.
UsedBy(slices) == {s.arr : s \in slices} \ {0}

\* A fresh array: one that no slice in use points into.
FreeArray(used) ==
    CHOOSE a \in ArrayIds :
        /\ a \notin used
        /\ \A b \in ArrayIds : b \notin used => a <= b

\* The collector: an array no slice points into is gone.
Collect(h, used) == [a \in ArrayIds |-> IF a \in used THEN h[a] ELSE <<>>]

\* The capacity append grows to: double, or one from nothing.
GrowCap(c) == IF c = 0 THEN 1 ELSE 2 * c

RECURSIVE CapFor(_, _)
\* The capacity a slice made empty ends with after n appends.
CapFor(c, n) == IF c >= n THEN c ELSE CapFor(GrowCap(c), n)

\* An array of capacity c holding list, its other slots nil.
ArrayOf(list, c) ==
    [k \in 1..c |-> IF k <= Len(list) THEN list[k] ELSE NoEndpoint]

\* append(s, e): in place when the array has room after the slice, and
\* otherwise into a fresh array to which the elements are copied.
GoAppend(h, s, e, used) ==
    IF s.len < CapOf(h, s)
      THEN [heap |-> [h EXCEPT ![s.arr][s.len + 1] = e],
            slice |-> [arr |-> s.arr, len |-> s.len + 1]]
      ELSE LET a == FreeArray(used)
           IN  [heap |-> [h EXCEPT ![a] =
                            ArrayOf(Append(ContentIn(h, s), e),
                                    GrowCap(CapOf(h, s)))],
                slice |-> [arr |-> a, len |-> s.len + 1]]

\* append(s[:i], s[i+1:]...) for the element at position k (counted from
\* one): s[:i] keeps the capacity of s, so the tail is copied one slot down
\* inside the array of s and the slot that was the last keeps its pointer.
RemoveAt(h, s, k) ==
    [heap |-> [h EXCEPT ![s.arr] =
                 [j \in 1..Len(h[s.arr]) |->
                    IF j >= k /\ j < s.len THEN h[s.arr][j + 1]
                    ELSE h[s.arr][j]]],
     slice |-> [arr |-> s.arr, len |-> s.len - 1]]

\* The position of the first element of list with identifier i, 0 if none:
\* the loops of aws.go:329 and akash/controller.go:147.
FirstWith(list, i) ==
    IF \E k \in 1..Len(list) : list[k].id = i
      THEN CHOOSE k \in 1..Len(list) :
             /\ list[k].id = i
             /\ \A j \in 1..(k - 1) : list[j].id # i
      ELSE 0

Snapshot_mut(h, s) == [heap |-> h, slice |-> s]
\* What ActiveEndpoints returns: a slice made empty by make and grown by one
\* append for each endpoint of c.endpoints that has not expired, hence an
\* array of its own.
Snapshot(h, s) ==
    LET list == ActiveOf(ContentIn(h, s))
        a == FreeArray(UsedBy({s}))
    IN  IF list = <<>>
          THEN [heap |-> h, slice |-> NilSlice]
          ELSE [heap |-> [h EXCEPT ![a] = ArrayOf(list, CapFor(0, Len(list)))],
                slice |-> [arr |-> a, len |-> Len(list)]]

ListControllers == {ProviderNoOp, ProviderAkash}
ListId(n) == IF variant = ProviderAkash THEN AkashId(n) ELSE NoOpId(n)
ListNotFound == IF variant = ProviderAkash THEN ErrNoDeployment ELSE ErrNotFound

ListReturned(o, i, r, h, s) ==
    [op |-> o, id |-> i, ret |-> r, before |-> Content(cends),
     after |-> ContentIn(h, s)]

\* Rotate of the NoOp controller, and of the Akash controller when the
\* deployment succeeds: the counter, the new Endpoint, the append.
ListRotate ==
    /\ variant \in ListControllers
    /\ counter < MaxEnds
    /\ counter' = NextCounter
    /\ LET e == NewEndpoint(ListId(NextCounter), variant)
           r == GoAppend(heap, cends, e, UsedBy({cends, snap.slice}))
       IN  /\ heap' = Collect(r.heap, UsedBy({r.slice, snap.slice}))
           /\ cends' = r.slice
           /\ slast' = ListReturned("rotate", e.id, Ok, r.heap, r.slice)
    /\ UNCHANGED <<snap, variant, endpoints, now, remote, rpc, rep, rcancel,
                   issued, retired, last, autoVars, supVars, cmpVars, regVars,
                   monVars>>

\* The identifiers Retire is called with: those handed out, and one that
\* never was.
ListRetireIds == {ListId(n) : n \in 1..counter} \cup {Unknown(variant).id}

\* Retire: the first endpoint with the identifier is removed in place, and
\* nil returned; without one the error, the list as it was.  (The Akash
\* controller finds the identifier in c.deployments, which holds the
\* identifiers of c.endpoints, and returns nil whatever CloseDeployment
\* answered.)
ListRetire ==
    /\ variant \in ListControllers
    /\ \E i \in ListRetireIds :
         LET k == FirstWith(Content(cends), i)
             r == RemoveAt(heap, cends, k)
         IN  IF k = 0
               THEN /\ slast' = ListReturned("retire", i, ListNotFound,
                                             heap, cends)
                    /\ UNCHANGED <<heap, cends>>
               ELSE /\ heap' = r.heap
                    /\ cends' = r.slice
                    /\ slast' = ListReturned("retire", i, Ok, r.heap, r.slice)
    /\ UNCHANGED <<snap, variant, endpoints, counter, now, remote, rpc, rep,
                   rcancel, issued, retired, last, autoVars, supVars, cmpVars,
                   regVars, monVars>>

\* ActiveEndpoints, its result kept by the caller in place of the one it
\* held before.
ListActiveEndpoints ==
    /\ variant \in ListControllers
    /\ LET r == Snapshot(Collect(heap, UsedBy({cends})), cends)
       IN  /\ heap' = Collect(r.heap, UsedBy({cends, r.slice}))
           /\ snap' = [taken |-> TRUE, slice |-> r.slice,
                       was |-> ContentIn(r.heap, r.slice)]
    /\ UNCHANGED <<cends, slast, variant, endpoints, counter, now, remote,
                   rpc, rep, rcancel, issued, retired, last, autoVars,
                   supVars, cmpVars, regVars, monVars>>

NextList ==
    \/ NewNoOpController
    \/ NewAkashController
    \/ Tick
    \/ ListRotate
    \/ ListRetire
    \/ ListActiveEndpoints

SpecList == Init /\ [][NextList]_vars

\* ======================================================== configuration
\* --------------------------------------------------------------- strings
\* A string whose characters matter is a sequence of one-character strings.
Digits == <<"0", "1", "2", "3", "4", "5", "6", "7", "8", "9">>
IsDigit(c) == \E d \in 1..10 : Digits[d] = c
DigitVal(c) == (CHOOSE d \in 1..10 : Digits[d] = c) - 1

\* The decimal value of a string of digits.
RECURSIVE Decimal(_)
Decimal(s) ==
    IF s = <<>> THEN 0
    ELSE 10 * Decimal(SubSeq(s, 1, Len(s) - 1)) + DigitVal(s[Len(s)])

\* strconv.Atoi: an optional sign and at least one digit, nothing else (the
\* strings of the model are too short to leave the range of int).
Unsigned(s) == IF s # <<>> /\ s[1] \in {"+", "-"} THEN Tail(s) ELSE s
AtoiOK(s) == Unsigned(s) # <<>> /\ \A k \in 1..Len(Unsigned(s)) : IsDigit(Unsigned(s)[k])
Atoi(s) == IF s[1] = "-" THEN 0 - Decimal(Unsigned(s)) ELSE Decimal(Unsigned(s))

\* strconv.Itoa / the %d of fmt.
RECURSIVE Itoa(_)
Itoa(n) ==
    IF n < 0 THEN <<"-">> \o Itoa(0 - n)
    ELSE IF n < 10 THEN <<Digits[n + 1]>>
    ELSE Itoa(n \div 10) \o <<Digits[(n % 10) + 1]>>

\* strings.LastIndex(s, c) counted from 1: 0 when c is not in s.
LastIndex(s, c) ==
    IF \E k \in 1..Len(s) : s[k] = c
      THEN CHOOSE k \in 1..Len(s) : s[k] = c /\ \A j \in (k + 1)..Len(s) : s[j] # c
      ELSE 0

\* The errors of the two builders (config_builder.go:73, 78, 130, 159, 164).
ErrNilConfig == "config is nil"
ErrNilClientConfig == "client config is nil"
ErrListen == "invalid listen address"
ErrFallbackListen == "invalid fallback listen address"
ErrLocalListen == "invalid local_listen"

\* config_builder.go:250-277: splitHostPort.
AnyHost == <<"0", ".", "0", ".", "0", ".", "0">>
splitHostPort(addr) ==
    IF addr = <<>>
      THEN [host |-> <<>>, port |-> 0, err |-> "empty address"]
    ELSE IF addr[1] = ":"
      THEN IF AtoiOK(Tail(addr))
             THEN [host |-> AnyHost, port |-> Atoi(Tail(addr)), err |-> ""]
             ELSE [host |-> <<>>, port |-> 0, err |-> "invalid port"]
    ELSE IF LastIndex(addr, ":") = 0
      THEN [host |-> <<>>, port |-> 0, err |-> "no port"]
    ELSE IF AtoiOK(SubSeq(addr, LastIndex(addr, ":") + 1, Len(addr)))
      THEN [host |-> SubSeq(addr, 1, LastIndex(addr, ":") - 1),
            port |-> Atoi(SubSeq(addr, LastIndex(addr, ":") + 1, Len(addr))),
            err |-> ""]
      ELSE [host |-> <<>>, port |-> 0, err |-> "invalid port"]

\* config_builder.go:279-290: parseServerAddr; 443 and the whole address when
\* there is no colon or no number behind the last one.
DefaultPort == 443
parseServerAddr(addr) ==
    IF LastIndex(addr, ":") = 0
      THEN [host |-> addr, port |-> DefaultPort]
    ELSE IF ~AtoiOK(SubSeq(addr, LastIndex(addr, ":") + 1, Len(addr)))
      THEN [host |-> addr, port |-> DefaultPort]
      ELSE [host |-> SubSeq(addr, 1, LastIndex(addr, ":") - 1),
            port |-> Atoi(SubSeq(addr, LastIndex(addr, ":") + 1, Len(addr)))]

\* config_builder.go:292-299: coalesce of a value and a default.
coalesce(v, d) == IF v # <<>> THEN v ELSE d

\* ------------------------------------------------------- encoding/json
\* JSON values: strings, numbers, booleans, arrays, and objects as sequences
\* of <<key, value>> in the order Marshal writes them (struct fields in the
\* order of declaration, map keys sorted).
Str(s) == [t |-> "string", v |-> s]
Num(n) == [t |-> "number", v |-> n]
Bool(b) == [t |-> "bool", v |-> b]
Arr(a) == [t |-> "array", v |-> a]
Obj(m) == [t |-> "object", v |-> m]

\* A struct field: always written, or left out when its value is empty
\* (`omitempty`: "", 0, a nil pointer, an empty slice).
Field(k, v) == << <<k, v>> >>
OmitEmpty(k, v, empty) == IF empty THEN <<>> ELSE << <<k, v>> >>

\* The concatenation of the strings of a sequence with commas between them.
RECURSIVE Join(_)
Join(parts) ==
    IF parts = <<>> THEN <<>>
    ELSE IF Len(parts) = 1 THEN parts[1]
    ELSE parts[1] \o <<",">> \o Join(Tail(parts))

\* A string as Marshal writes it: in quotes, with a backslash before a quote
\* or a backslash.
RECURSIVE Escape(_)
Escape(s) ==
    IF s = <<>> THEN <<>>
    ELSE IF s[1] \in {"\"", "\\"} THEN <<"\\", s[1]>> \o Escape(Tail(s))
    ELSE <<s[1]>> \o Escape(Tail(s))
Quote(s) == <<"\"">> \o Escape(s) \o <<"\"">>

\* json.Marshal (config_builder.go:152, 246): the text of a value, without
\* white space.
RECURSIVE Marshal(_)
Marshal(j) ==
    CASE j.t = "string" -> Quote(j.v)
      [] j.t = "number" -> Itoa(j.v)
      [] j.t = "bool" -> IF j.v THEN <<"t", "r", "u", "e">> ELSE <<"f", "a", "l", "s", "e">>
      [] j.t = "array" ->
            <<"[">> \o Join([k \in 1..Len(j.v) |-> Marshal(j.v[k])]) \o <<"]">>
      [] j.t = "object" ->
            <<"{">>
            \o Join([k \in 1..Len(j.v) |->
                       Quote(j.v[k][1]) \o <<":">> \o Marshal(j.v[k][2])])
            \o <<"}">>

\* json.Unmarshal into a RawMessage (engine.go:242-245) accepts exactly the
\* texts that are one JSON value.  Each operator gives the position behind
\* the thing that starts at position i of x, and 0 when there is no such
\* thing there.
RECURSIVE StringEnd(_, _)
StringEnd(x, i) ==
    IF i > Len(x) THEN 0
    ELSE IF x[i] = "\"" THEN i + 1
    ELSE IF x[i] = "\\" THEN (IF i + 1 > Len(x) THEN 0 ELSE StringEnd(x, i + 2))
    ELSE StringEnd(x, i + 1)

RECURSIVE DigitsEnd(_, _)
DigitsEnd(x, i) == IF i <= Len(x) /\ IsDigit(x[i]) THEN DigitsEnd(x, i + 1) ELSE i

NumberEnd(x, i) ==
    LET from == IF x[i] = "-" THEN i + 1 ELSE i
    IN  IF DigitsEnd(x, from) > from THEN DigitsEnd(x, from) ELSE 0

WordEnd(x, i, w) ==
    IF i + Len(w) - 1 <= Len(x) /\ SubSeq(x, i, i + Len(w) - 1) = w
      THEN i + Len(w)
      ELSE 0

RECURSIVE ValueEnd(_, _)
RECURSIVE ElementsEnd(_, _)
RECURSIVE MembersEnd(_, _)

\* After a value of an array: a comma and more values, or the bracket.
ElementsEnd(x, i) ==
    LET e == ValueEnd(x, i)
    IN  IF e = 0 \/ e > Len(x) THEN 0
        ELSE IF x[e] = "," THEN ElementsEnd(x, e + 1)
        ELSE IF x[e] = "]" THEN e + 1
        ELSE 0

\* A key, a colon and a value; then a comma and more members, or the brace.
MembersEnd(x, i) ==
    IF i > Len(x) \/ x[i] # "\"" THEN 0
    ELSE LET k == StringEnd(x, i + 1)
             e == ValueEnd(x, k + 1)
         IN  IF k = 0 \/ k > Len(x) \/ x[k] # ":" THEN 0
             ELSE IF e = 0 \/ e > Len(x) THEN 0
             ELSE IF x[e] = "," THEN MembersEnd(x, e + 1)
             ELSE IF x[e] = "}" THEN e + 1
             ELSE 0

ValueEnd(x, i) ==
    IF i > Len(x) THEN 0
    ELSE CASE x[i] = "\"" -> StringEnd(x, i + 1)
           [] x[i] = "[" ->
                 IF i + 1 <= Len(x) /\ x[i + 1] = "]" THEN i + 2
                 ELSE ElementsEnd(x, i + 1)
           [] x[i] = "{" ->
                 IF i + 1 <= Len(x) /\ x[i + 1] = "}" THEN i + 2
                 ELSE MembersEnd(x, i + 1)
           [] x[i] = "t" -> WordEnd(x, i, <<"t", "r", "u", "e">>)
           [] x[i] = "f" -> WordEnd(x, i, <<"f", "a", "l", "s", "e">>)
           [] x[i] = "n" -> WordEnd(x, i, <<"n", "u", "l", "l">>)
           [] OTHER -> NumberEnd(x, i)

ValidJSON(x) == ValueEnd(x, 1) = Len(x) + 1

\* json.Unmarshal into map[string]any (engine_test.go:107-111): the value a
\* text stands for.  Each operator gives the position behind what it read and
\* the value; the position is 0 when the text is not JSON.
NoParse == [end |-> 0, val |-> [t |-> "nil"]]

RECURSIVE Unescape(_)
Unescape(s) ==
    IF s = <<>> THEN <<>>
    ELSE IF s[1] = "\\" /\ Len(s) > 1 THEN <<s[2]>> \o Unescape(SubSeq(s, 3, Len(s)))
    ELSE <<s[1]>> \o Unescape(Tail(s))

ParseString(x, i) ==
    IF StringEnd(x, i + 1) = 0 THEN NoParse
    ELSE [end |-> StringEnd(x, i + 1),
          val |-> Str(Unescape(SubSeq(x, i + 1, StringEnd(x, i + 1) - 2)))]

ParseNumber(x, i) ==
    IF NumberEnd(x, i) = 0 THEN NoParse
    ELSE [end |-> NumberEnd(x, i), val |-> Num(Atoi(SubSeq(x, i, NumberEnd(x, i) - 1)))]

ParseWord(x, i, w, v) ==
    IF WordEnd(x, i, w) = 0 THEN NoParse ELSE [end |-> WordEnd(x, i, w), val |-> v]

RECURSIVE ParseValue(_, _)
RECURSIVE ParseElements(_, _, _)
RECURSIVE ParseMembers(_, _, _)

ParseElements(x, i, read) ==
    LET r == ParseValue(x, i)
    IN  IF r.end = 0 \/ r.end > Len(x) THEN NoParse
        ELSE IF x[r.end] = "," THEN ParseElements(x, r.end + 1, Append(read, r.val))
        ELSE IF x[r.end] = "]"
          THEN [end |-> r.end + 1, val |-> Arr(Append(read, r.val))]
        ELSE NoParse

ParseMembers(x, i, read) ==
    IF i > Len(x) \/ x[i] # "\"" THEN NoParse
    ELSE LET k == ParseString(x, i)
             r == ParseValue(x, k.end + 1)
         IN  IF k.end = 0 \/ k.end > Len(x) \/ x[k.end] # ":" THEN NoParse
             ELSE IF r.end = 0 \/ r.end > Len(x) THEN NoParse
             ELSE IF x[r.end] = ","
               THEN ParseMembers(x, r.end + 1, Append(read, <<k.val.v, r.val>>))
             ELSE IF x[r.end] = "}"
               THEN [end |-> r.end + 1, val |-> Obj(Append(read, <<k.val.v, r.val>>))]
             ELSE NoParse

ParseValue(x, i) ==
    IF i > Len(x) THEN NoParse
    ELSE CASE x[i] = "\"" -> ParseString(x, i)
           [] x[i] = "[" ->
                 IF i + 1 <= Len(x) /\ x[i + 1] = "]"
                   THEN [end |-> i + 2, val |-> Arr(<<>>)]
                   ELSE ParseElements(x, i + 1, <<>>)
           [] x[i] = "{" ->
                 IF i + 1 <= Len(x) /\ x[i + 1] = "}"
                   THEN [end |-> i + 2, val |-> Obj(<<>>)]
                   ELSE ParseMembers(x, i + 1, <<>>)
           [] x[i] = "t" -> ParseWord(x, i, <<"t", "r", "u", "e">>, Bool(TRUE))
           [] x[i] = "f" -> ParseWord(x, i, <<"f", "a", "l", "s", "e">>, Bool(FALSE))
           [] x[i] = "n" -> ParseWord(x, i, <<"n", "u", "l", "l">>, [t |-> "nil"])
           [] OTHER -> ParseNumber(x, i)

Unmarshal(x) ==
    IF ParseValue(x, 1).end = Len(x) + 1 THEN ParseValue(x, 1).val ELSE [t |-> "nil"]

\* The value of the member k of a JSON object, the elements of a JSON array.
Has(j, k) == j.t = "object" /\ \E n \in 1..Len(j.v) : j.v[n][1] = k
Member(j, k) == j.v[CHOOSE n \in 1..Len(j.v) : j.v[n][1] = k][2]
Elements(j) == j.v

\* dpi_test.go:150-173: containsCI, a search that takes the letters A-Z for
\* a-z.
UpperCase == <<"A", "B", "C", "D", "E", "F", "G", "H", "I", "J", "K", "L", "M", "N", "O", "P", "Q", "R", "S", "T", "U", "V", "W", "X", "Y", "Z">>
LowerCase == <<"a", "b", "c", "d", "e", "f", "g", "h", "i", "j", "k", "l", "m", "n", "o", "p", "q", "r", "s", "t", "u", "v", "w", "x", "y", "z">>
ToLower(c) ==
    IF \E k \in 1..26 : UpperCase[k] = c
      THEN LowerCase[CHOOSE k \in 1..26 : UpperCase[k] = c]
      ELSE c
containsCI(haystack, needle) ==
    LET h == [k \in 1..Len(haystack) |-> ToLower(haystack[k])]
        n == [k \in 1..Len(needle) |-> ToLower(needle[k])]
    IN  \E i \in 0..(Len(h) - Len(n)) : \A j \in 1..Len(n) : h[i + j] = n[j]

\* dpi_test.go:107-110: the identifying strings.
leakyStrings ==
    {<<"e", "n", "t", "r", "o", "p", "y">>, <<"t", "u", "n", "n", "e", "l">>, <<"v", "p", "n">>, <<"p", "r", "o", "x", "y">>, <<"s", "h", "a", "d", "o", "w", "s", "o", "c", "k", "s">>, <<"v", "2", "r", "a", "y">>, <<"x", "r", "a", "y">>}

\* The identifying strings a text contains.
Leaks(text) == {w \in leakyStrings : containsCI(text, w)}

\* ------------------------------------------------- the xray structures
\* A nil pointer, a nil RawMessage.
Nil == [t |-> "nil"]
IsNil(x) == x.t = "nil"

\* config_builder.go:46-59: xrayRealityStream with the fields the builders
\* set; all others are "" / 0 / nil.
NoReality ==
    [t |-> "reality", Show |-> FALSE, Dest |-> <<>>, Xver |-> 0,
     ServerNames |-> <<>>, PrivateKey |-> <<>>, ShortIDs |-> <<>>,
     ServerName |-> <<>>, Fingerprint |-> <<>>, PublicKey |-> <<>>,
     ShortID |-> <<>>]

\* config_builder.go:38-44: xrayStream.
Stream(network, security, reality, ws) ==
    [t |-> "stream", Network |-> network, Security |-> security,
     Reality |-> reality, TLS |-> Nil, WS |-> ws]

\* The slice of strings as a JSON array.
Strings(list) == Arr([k \in 1..Len(list) |-> Str(list[k])])

\* config_builder.go:46-59, the json tags of xrayRealityStream.
RealityJSON(r) ==
    Obj(Field(<<"s", "h", "o", "w">>, Bool(r.Show))
        \o OmitEmpty(<<"d", "e", "s", "t">>, Str(r.Dest), r.Dest = <<>>)
        \o OmitEmpty(<<"x", "v", "e", "r">>, Num(r.Xver), r.Xver = 0)
        \o OmitEmpty(<<"s", "e", "r", "v", "e", "r", "N", "a", "m", "e", "s">>, Strings(r.ServerNames), r.ServerNames = <<>>)
        \o OmitEmpty(<<"p", "r", "i", "v", "a", "t", "e", "K", "e", "y">>, Str(r.PrivateKey), r.PrivateKey = <<>>)
        \o OmitEmpty(<<"s", "h", "o", "r", "t", "I", "d", "s">>, Strings(r.ShortIDs), r.ShortIDs = <<>>)
        \o OmitEmpty(<<"s", "e", "r", "v", "e", "r", "N", "a", "m", "e">>, Str(r.ServerName), r.ServerName = <<>>)
        \o OmitEmpty(<<"f", "i", "n", "g", "e", "r", "p", "r", "i", "n", "t">>, Str(r.Fingerprint), r.Fingerprint = <<>>)
        \o OmitEmpty(<<"p", "u", "b", "l", "i", "c", "K", "e", "y">>, Str(r.PublicKey), r.PublicKey = <<>>)
        \o OmitEmpty(<<"s", "h", "o", "r", "t", "I", "d">>, Str(r.ShortID), r.ShortID = <<>>))

\* config_builder.go:38-44, 65-67, the json tags of xrayStream and
\* xrayWSStream; TLS is never set.
StreamJSON(s) ==
    Obj(Field(<<"n", "e", "t", "w", "o", "r", "k">>, Str(s.Network))
        \o Field(<<"s", "e", "c", "u", "r", "i", "t", "y">>, Str(s.Security))
        \o (IF IsNil(s.Reality) THEN <<>>
            ELSE Field(<<"r", "e", "a", "l", "i", "t", "y", "S", "e", "t", "t", "i", "n", "g", "s">>, RealityJSON(s.Reality)))
        \o (IF IsNil(s.WS) THEN <<>>
            ELSE Field(<<"w", "s", "S", "e", "t", "t", "i", "n", "g", "s">>, Obj(Field(<<"p", "a", "t", "h">>, Str(s.WS.Path))))))

\* config_builder.go:22-29, the json tags of xrayInbound.
InboundJSON(b) ==
    Obj(Field(<<"t", "a", "g">>, Str(b.Tag))
        \o OmitEmpty(<<"l", "i", "s", "t", "e", "n">>, Str(b.Listen), b.Listen = <<>>)
        \o Field(<<"p", "o", "r", "t">>, Num(b.Port))
        \o Field(<<"p", "r", "o", "t", "o", "c", "o", "l">>, Str(b.Protocol))
        \o Field(<<"s", "e", "t", "t", "i", "n", "g", "s">>, b.Settings)
        \o (IF IsNil(b.Stream) THEN <<>>
            ELSE Field(<<"s", "t", "r", "e", "a", "m", "S", "e", "t", "t", "i", "n", "g", "s">>, StreamJSON(b.Stream))))

\* config_builder.go:31-36, the json tags of xrayOutbound.
OutboundJSON(o) ==
    Obj(Field(<<"t", "a", "g">>, Str(o.Tag))
        \o Field(<<"p", "r", "o", "t", "o", "c", "o", "l">>, Str(o.Protocol))
        \o (IF IsNil(o.Settings) THEN <<>> ELSE Field(<<"s", "e", "t", "t", "i", "n", "g", "s">>, o.Settings))
        \o (IF IsNil(o.Stream) THEN <<>>
            ELSE Field(<<"s", "t", "r", "e", "a", "m", "S", "e", "t", "t", "i", "n", "g", "s">>, StreamJSON(o.Stream))))

\* config_builder.go:12-20, the json tags of xrayFullConfig and xrayLog.
ConfigJSON(xc) ==
    Obj(Field(<<"l", "o", "g">>, Obj(Field(<<"l", "o", "g", "l", "e", "v", "e", "l">>, Str(xc.LogLevel))))
        \o Field(<<"i", "n", "b", "o", "u", "n", "d", "s">>,
                 Arr([k \in 1..Len(xc.Inbounds) |-> InboundJSON(xc.Inbounds[k])]))
        \o Field(<<"o", "u", "t", "b", "o", "u", "n", "d", "s">>,
                 Arr([k \in 1..Len(xc.Outbounds) |-> OutboundJSON(xc.Outbounds[k])])))

\* ------------------------------------------------------- BuildServerJSON
\* config_builder.go:128-149: the inbound of the fallback at index i
\* (counted from 0).
FallbackInbound(fb, i) ==
    [Tag |-> <<"f", "a", "l", "l", "b", "a", "c", "k", "-">> \o fb.Protocol \o <<"-">> \o Itoa(i),
     Listen |-> splitHostPort(fb.Listen).host,
     Port |-> splitHostPort(fb.Listen).port,
     Protocol |-> fb.Protocol,
     Settings |-> Obj(<<>>),
     Stream |-> IF fb.Transport = <<"w", "s">>
                  THEN Stream(<<"w", "s">>, <<"t", "l", "s">>, Nil, [t |-> "ws", Path |-> fb.Path])
                  ELSE Nil]

\* config_builder.go:81-84: the short IDs of the primary inbound.
shortIDs_mut(cfg) == cfg.ShortIDs
shortIDs(cfg) == IF Len(cfg.ShortIDs) = 0 THEN << <<>> >> ELSE cfg.ShortIDs

\* config_builder.go:81-124: the primary inbound and the two outbounds.
PrimaryInbound(cfg) ==
    [Tag |-> <<"v", "l", "e", "s", "s", "-", "r", "e", "a", "l", "i", "t", "y">>,
     Listen |-> splitHostPort(cfg.Listen).host,
     Port |-> splitHostPort(cfg.Listen).port,
     Protocol |-> <<"v", "l", "e", "s", "s">>,
     Settings |->
         Obj(Field(<<"c", "l", "i", "e", "n", "t", "s">>,
                   Arr(<<Obj(Field(<<"f", "l", "o", "w">>, Str(<<"x", "t", "l", "s", "-", "r", "p", "r", "x", "-", "v", "i", "s", "i", "o", "n">>))
                             \o Field(<<"i", "d">>, Str(cfg.UUID)))>>))
             \o Field(<<"d", "e", "c", "r", "y", "p", "t", "i", "o", "n">>, Str(<<"n", "o", "n", "e">>))),
     Stream |->
         Stream(<<"t", "c", "p">>, <<"r", "e", "a", "l", "i", "t", "y">>,
                [NoReality EXCEPT
                    !.Dest = cfg.SNI \o <<":", "4", "4", "3">>,
                    !.ServerNames = <<cfg.SNI>>,
                    !.PrivateKey = cfg.PrivateKey,
                    !.ShortIDs = shortIDs(cfg)],
                Nil)]

Outbound(tag, protocol) ==
    [Tag |-> tag, Protocol |-> protocol, Settings |-> Nil, Stream |-> Nil]

\* config_builder.go:71-153: BuildServerJSON up to the Marshal: the error and
\* the xrayFullConfig.
Failed(e) == [err |-> e, xc |-> <<>>]
ServerInbounds_mut(cfg) == <<PrimaryInbound(cfg)>>
ServerInbounds(cfg) ==
    <<PrimaryInbound(cfg)>>
    \o [k \in 1..Len(cfg.Fallbacks) |-> FallbackInbound(cfg.Fallbacks[k], k - 1)]
BuildServerXC(cfg) ==
    IF cfg.nil THEN Failed(ErrNilConfig)
    ELSE IF splitHostPort(cfg.Listen).err # "" THEN Failed(ErrListen)
    ELSE IF \E k \in 1..Len(cfg.Fallbacks) :
                splitHostPort(cfg.Fallbacks[k].Listen).err # ""
      THEN Failed(ErrFallbackListen)
    ELSE [err |-> "",
          xc |-> [LogLevel |-> coalesce(cfg.LogLevel, <<"i", "n", "f", "o">>),
                  Inbounds |-> ServerInbounds(cfg),
                  Outbounds |-> <<Outbound(<<"d", "i", "r", "e", "c", "t">>, <<"f", "r", "e", "e", "d", "o", "m">>),
                                  Outbound(<<"b", "l", "o", "c", "k">>, <<"b", "l", "a", "c", "k", "h", "o", "l", "e">>)>>]]

\* ------------------------------------------------------- BuildClientJSON
\* config_builder.go:166-185, 204-221: the outbound to the server.
ProxyOutbound(cfg) ==
    [Tag |-> <<"p", "r", "o", "x", "y">>,
     Protocol |-> <<"v", "l", "e", "s", "s">>,
     Settings |->
         Obj(Field(<<"v", "n", "e", "x", "t">>,
                   Arr(<<Obj(Field(<<"a", "d", "d", "r", "e", "s", "s">>, Str(parseServerAddr(cfg.Server).host))
                             \o Field(<<"p", "o", "r", "t">>, Num(parseServerAddr(cfg.Server).port))
                             \o Field(<<"u", "s", "e", "r", "s">>,
                                      Arr(<<Obj(Field(<<"e", "n", "c", "r", "y", "p", "t", "i", "o", "n">>, Str(<<"n", "o", "n", "e">>))
                                                \o Field(<<"f", "l", "o", "w">>,
                                                         Str(<<"x", "t", "l", "s", "-", "r", "p", "r", "x", "-", "v", "i", "s", "i", "o", "n">>))
                                                \o Field(<<"i", "d">>, Str(cfg.UUID)))>>)))>>))),
     Stream |->
         Stream(<<"t", "c", "p">>, <<"r", "e", "a", "l", "i", "t", "y">>,
                [NoReality EXCEPT
                    !.ServerName = cfg.SNI,
                    !.Fingerprint = coalesce(cfg.Fingerprint, <<"c", "h", "r", "o", "m", "e">>),
                    !.PublicKey = cfg.PublicKey,
                    !.ShortID = cfg.ShortID],
                Nil)]

\* config_builder.go:195-201: the SOCKS5 inbound.
SocksInbound(cfg) ==
    [Tag |-> <<"s", "o", "c", "k", "s", "-", "i", "n">>,
     Listen |-> splitHostPort(cfg.LocalListen).host,
     Port |-> splitHostPort(cfg.LocalListen).port,
     Protocol |-> <<"s", "o", "c", "k", "s">>,
     Settings |-> Obj(Field(<<"u", "d", "p">>, Bool(TRUE))),
     Stream |-> Nil]

\* config_builder.go:228-243: the HTTP inbound, added when HTTPListen is not
\* empty and splits without an error.
HTTPInbounds(cfg) ==
    IF cfg.HTTPListen # <<>> /\ splitHostPort(cfg.HTTPListen).err = ""
      THEN <<[Tag |-> <<"h", "t", "t", "p", "-", "i", "n">>,
              Listen |-> splitHostPort(cfg.HTTPListen).host,
              Port |-> splitHostPort(cfg.HTTPListen).port,
              Protocol |-> <<"h", "t", "t", "p">>,
              Settings |-> Obj(Field(<<"a", "l", "l", "o", "w", "T", "r", "a", "n", "s", "p", "a", "r", "e", "n", "t">>, Bool(FALSE))),
              Stream |-> Nil]>>
      ELSE <<>>

\* config_builder.go:157-246: BuildClientJSON up to the Marshal.
BuildClientXC(cfg) ==
    IF cfg.nil THEN Failed(ErrNilClientConfig)
    ELSE IF splitHostPort(cfg.LocalListen).err # "" THEN Failed(ErrLocalListen)
    ELSE [err |-> "",
          xc |-> [LogLevel |-> coalesce(cfg.LogLevel, <<"i", "n", "f", "o">>),
                  Inbounds |-> <<SocksInbound(cfg)>> \o HTTPInbounds(cfg),
                  Outbounds |-> <<ProxyOutbound(cfg),
                                  Outbound(<<"d", "i", "r", "e", "c", "t">>, <<"f", "r", "e", "e", "d", "o", "m">>)>>]]

\* ------------------------------------------------------------- Validate
\* dpi_test.go:262: the protocols Validate accepts.
validProtocols_mut == {<<"v", "l", "e", "s", "s">>}
validProtocols == {<<"v", "l", "e", "s", "s">>, <<"t", "r", "o", "j", "a", "n">>}

\* dpi_test.go:241-268: Config.Validate; the defaults it has set by the time
\* it returns stay in the Config.
ValidateServer(c) ==
    LET c1 == [c EXCEPT !.Protocol = coalesce(c.Protocol, <<"v", "l", "e", "s", "s">>)]
        c2 == [c1 EXCEPT !.Fingerprint = coalesce(c.Fingerprint, <<"c", "h", "r", "o", "m", "e">>)]
    IN  IF c.Listen = <<>> THEN [err |-> "listen address is required", cfg |-> c]
        ELSE IF c.UUID = <<>> THEN [err |-> "UUID is required", cfg |-> c1]
        ELSE IF c.SNI = <<>> THEN [err |-> "reality.sni is required", cfg |-> c1]
        ELSE IF c.PrivateKey = <<>>
          THEN [err |-> "reality.private_key is required", cfg |-> c1]
        ELSE IF c2.Protocol \notin validProtocols
          THEN [err |-> "unsupported protocol", cfg |-> c2]
        ELSE [err |-> "", cfg |-> c2]

\* dpi_test.go:315-338: ClientConfig.Validate.
ValidateClient(c) ==
    IF c.Server = <<>> THEN [err |-> "server address is required", cfg |-> c]
    ELSE IF c.UUID = <<>> THEN [err |-> "UUID is required", cfg |-> c]
    ELSE IF c.SNI = <<>> THEN [err |-> "SNI is required", cfg |-> c]
    ELSE IF c.PublicKey = <<>> THEN [err |-> "public_key is required", cfg |-> c]
    ELSE [err |-> "",
          cfg |-> [c EXCEPT
                     !.LocalListen = coalesce(c.LocalListen, <<"1", "2", "7", ".", "0", ".", "0", ".", "1", ":", "1", "0", "8", "0">>),
                     !.Fingerprint = coalesce(c.Fingerprint, <<"c", "h", "r", "o", "m", "e">>),
                     !.APIListen = coalesce(c.APIListen, <<"1", "2", "7", ".", "0", ".", "0", ".", "1", ":", "9", "8", "7", "6">>)]]

\* ------------------------------------------------- the configurations
\* The addresses: every string of up to MaxAddr characters out of a letter,
\* the colon and a digit.
MaxAddr == 3
AddrChars == {"h", ":", "8"}
Addrs == UNION {[1..n -> AddrChars] : n \in 0..MaxAddr}

\* The fallbacks: up to MaxFallbacks, each with an address that splits or one
\* that does not, with and without the websocket transport.
MaxFallbacks == 2
Fallback(listen, transport) ==
    [Protocol |-> <<"t", "r", "o", "j", "a", "n">>, Listen |-> listen, Transport |-> transport,
     Path |-> <<"/", "w", "s">>]
FallbackConfigs == {Fallback(<<":", "8">>, <<>>), Fallback(<<":", "8">>, <<"w", "s">>), Fallback(<<"h">>, <<>>)}
FallbackLists == UNION {[1..n -> FallbackConfigs] : n \in 0..MaxFallbacks}

\* The lists of short IDs of a Config: none, the empty one, one, two.
ShortIDLists == {<<>>, << <<>> >>, <<<<"d">>>>, <<<<"d">>, <<"e">>>>}

\* The values of a field that Validate requires: missing or present.
Maybe(s) == {<<>>, s}

\* A Config (dpi_test.go:182-199) with the fields the builder and Validate
\* look at.
ServerConfig(listen, fallbacks, protocol, uuid, sni, key) ==
    [kind |-> "server", nil |-> FALSE, Listen |-> listen, Protocol |-> protocol,
     UUID |-> uuid, SNI |-> sni, PrivateKey |-> key, ShortIDs |-> <<>>,
     Fingerprint |-> <<>>, Fallbacks |-> fallbacks, LogLevel |-> <<>>]

\* The *Config values a caller can have: nil; every address and list of
\* fallbacks with the required fields set; every choice of protocol and of
\* required fields set or not with a good address; every list of short IDs
\* with and without a hostname and a private key.
ServerConfigs ==
    {[kind |-> "server", nil |-> TRUE]}
    \cup {ServerConfig(l, f, <<>>, <<"u">>, <<"g", ".", "c", "o", "m">>, <<"k">>) :
             l \in Addrs, f \in FallbackLists}
    \cup {ServerConfig(<<":", "8">>, <<>>, p, u, s, k) :
             p \in {<<>>, <<"t", "r", "o", "j", "a", "n">>, <<"s", "o", "c", "k", "s">>}, u \in Maybe(<<"u">>),
             s \in Maybe(<<"g", ".", "c", "o", "m">>), k \in Maybe(<<"k">>)}
    \cup {[ServerConfig(l, <<>>, p, <<"u">>, <<"g", ".", "c", "o", "m">>, <<"k">>) EXCEPT !.Fingerprint = <<"f", "i", "r", "e", "f", "o", "x">>] :
             l \in Maybe(<<":", "8">>), p \in {<<>>, <<"v", "l", "e", "s", "s">>, <<"t", "r", "o", "j", "a", "n">>, <<"s", "o", "c", "k", "s">>}}
    \cup {[ServerConfig(<<":", "8">>, <<>>, <<>>, <<"u">>, s, k) EXCEPT !.ShortIDs = ids] :
             ids \in ShortIDLists, s \in Maybe(<<"g", ".", "c", "o", "m">>), k \in Maybe(<<"k">>)}

\* A ClientConfig (dpi_test.go:283-298).
ClientConfig(server, local, http, fingerprint, uuid, sni, key) ==
    [kind |-> "client", nil |-> FALSE, Server |-> server, UUID |-> uuid,
     SNI |-> sni, PublicKey |-> key, ShortID |-> <<>>,
     Fingerprint |-> fingerprint, LocalListen |-> local, HTTPListen |-> http,
     LogLevel |-> <<>>, APIListen |-> <<>>]

\* The *ClientConfig values a caller can have, chosen the same way.
ClientConfigs ==
    {[kind |-> "client", nil |-> TRUE]}
    \cup {ClientConfig(a, l, h, <<"f", "i", "r", "e", "f", "o", "x">>, <<"u">>, <<"g", ".", "c", "o", "m">>, <<"k">>) :
             a \in Addrs, l \in {<<>>, <<":", "8">>, <<"h">>}, h \in {<<>>, <<":", "8">>, <<"h">>}}
    \cup {ClientConfig(<<"h", ":", "8">>, <<":", "8">>, <<>>, f, u, s, k) :
             f \in Maybe(<<"f", "i", "r", "e", "f", "o", "x">>), u \in Maybe(<<"u">>), s \in Maybe(<<"g", ".", "c", "o", "m">>),
             k \in Maybe(<<"k">>)}

\* --------------------------------------------- from a Config to an instance
\* A caller has a *Config at hand.
LoadConfig ==
    /\ cstage = "none"
    /\ \E c \in ServerConfigs : cin' = c /\ cgiven' = c
    /\ cstage' = "loaded"
    /\ UNCHANGED <<cdoc, cjson, cerr, cvalid, cleak, supVars, rotVars, regVars, memVars>>

\* A caller has a *ClientConfig at hand.
LoadClientConfig ==
    /\ cstage = "none"
    /\ \E c \in ClientConfigs : cin' = c /\ cgiven' = c
    /\ cstage' = "loaded"
    /\ UNCHANGED <<cdoc, cjson, cerr, cvalid, cleak, supVars, rotVars, regVars, memVars>>

\* The caller calls Validate on the struct it has, also on one that Validate
\* has accepted before.
Validated(r) ==
    /\ cin' = r.cfg
    /\ cerr' = r.err
    /\ cvalid' = (r.err = "")
    /\ cstage' = IF r.err = "" THEN "validated" ELSE "rejected"

ConfigValidate ==
    /\ cstage \in {"loaded", "validated"}
    /\ cin.kind = "server" /\ ~cin.nil
    /\ Validated(ValidateServer(cin))
    /\ UNCHANGED <<cdoc, cjson, cleak, cgiven, supVars, rotVars, regVars, memVars>>

ClientConfigValidate ==
    /\ cstage \in {"loaded", "validated"}
    /\ cin.kind = "client" /\ ~cin.nil
    /\ Validated(ValidateClient(cin))
    /\ UNCHANGED <<cdoc, cjson, cleak, cgiven, supVars, rotVars, regVars, memVars>>

\* What a builder returns: the error and nil bytes, or the Marshal of the
\* xrayFullConfig (config_builder.go:152, 246).
Built(r) ==
    /\ cerr' = r.err
    /\ LET bytes == IF r.err = "" THEN Marshal(ConfigJSON(r.xc)) ELSE <<>>
       IN  /\ cjson' = bytes
           /\ cdoc' = IF r.err = "" THEN Unmarshal(bytes) ELSE Nil
           /\ cleak' = IF r.err = "" THEN Leaks(bytes) ELSE {}
    /\ cstage' = IF r.err = "" THEN "compiled" ELSE "failed"

BuildServerJSON ==
    /\ cstage \in {"loaded", "validated"}
    /\ cin.kind = "server"
    /\ Built(BuildServerXC(cin))
    /\ UNCHANGED <<cin, cvalid, cgiven, supVars, rotVars, regVars, memVars>>

BuildClientJSON ==
    /\ cstage \in {"loaded", "validated"}
    /\ cin.kind = "client"
    /\ Built(BuildClientXC(cin))
    /\ UNCHANGED <<cin, cvalid, cgiven, supVars, rotVars, regVars, memVars>>

\* engine.go:240-247: stubLoader gives an instance for well-formed JSON and
\* an error otherwise.
stubLoader ==
    /\ cstage = "compiled"
    /\ cstage' = IF ValidJSON(cjson) THEN "instance" ELSE "refused"
    /\ cerr' = IF ValidJSON(cjson) THEN "" ELSE "invalid JSON config"
    /\ UNCHANGED <<cin, cdoc, cjson, cvalid, cleak, cgiven, supVars, rotVars, regVars, memVars>>

\* engine.go:237: stubInstance.Start returns nil.
stubInstanceStart ==
    /\ cstage = "instance"
    /\ cstage' = "running"
    /\ UNCHANGED <<cin, cdoc, cjson, cerr, cvalid, cleak, cgiven, supVars, rotVars, regVars, memVars>>

\* Configurations are validated, compiled and loaded with the stub.
NextCompile ==
    \/ LoadConfig
    \/ LoadClientConfig
    \/ ConfigValidate
    \/ ClientConfigValidate
    \/ BuildServerJSON
    \/ BuildClientJSON
    \/ stubLoader
    \/ stubInstanceStart

SpecCompile == Init /\ [][NextCompile]_vars

\* ==================================================== end configuration
\* ------------------------------------------------------ protocols.Registry
\* The names and the priorities a Protocol can answer with; registry.go:10-26.
MaxPriority == 3          \* the priorities a Protocol can answer with
ProtocolNames == {"vless", "trojan", "snowflake"}
Protocols == [name : ProtocolNames, priority : 1..MaxPriority, available : BOOLEAN]

\* registry.go:41-52: Register, under r.mu: an error for a name that is in the
\* map, else the protocol is stored under its name.
Register(p) ==
    /\ IF p.name \in DOMAIN protocols
         THEN UNCHANGED protocols
         ELSE protocols' = [n \in DOMAIN protocols \cup {p.name} |->
                               IF n = p.name THEN p ELSE protocols[n]]
    /\ rlast' = [op |-> "register", p |-> p, before |-> protocols,
                 err |-> p.name \in DOMAIN protocols]
    /\ UNCHANGED <<supVars, rotVars, cmpVars, memVars>>

\* registry.go:88: p.Priority() < best.Priority().
Better_mut(p, best) == p.priority > best.priority
Better(p, best) == p.priority < best.priority

\* registry.go:83-91: the loop over the map in the order the range gives,
\* best being nil (<<>>) or the protocol kept so far.
RECURSIVE Scan(_, _)
Scan(order, best) ==
    IF order = <<>> THEN best
    ELSE LET p == protocols[Head(order)]
         IN  IF ~p.available THEN Scan(Tail(order), best)
             ELSE IF best = <<>> \/ Better(p, best) THEN Scan(Tail(order), p)
             ELSE Scan(Tail(order), best)

\* The orders a range over a map of these keys can take: every one.
Orders(keys) ==
    {o \in [1..Cardinality(keys) -> keys] :
        \A i, j \in 1..Cardinality(keys) : i # j => o[i] # o[j]}

\* registry.go:78-97: SelectBest, under r.mu for reading.
SelectBest ==
    /\ \E order \in Orders(DOMAIN protocols) :
          rlast' = [op |-> "select", p |-> Scan(order, <<>>),
                    err |-> Scan(order, <<>>) = <<>>]
    /\ UNCHANGED <<protocols, supVars, rotVars, cmpVars, memVars>>

\* Protocols are registered and the best one is asked for.
NextRegistry ==
    \/ \E p \in Protocols : Register(p)
    \/ SelectBest

SpecRegistry == Init /\ [][NextRegistry]_vars

\* ------------------------------------------------ claims of the controllers
\* The ids of the endpoints of a list.
IdsOf(list) == {list[k].id : k \in 1..Len(list)}

\* C11 as stated: ActiveEndpoints is never longer than the number of
\* successful Rotates, it is empty once every endpoint a Rotate returned was
\* retired, every successful Rotate makes it one longer and every successful
\* Retire makes it one shorter.
C11_Original ==
    /\ Len(ActiveEndpoints) <= Len(issued)
    /\ (IdsOf(issued) \subseteq retired) => ActiveEndpoints = <<>>
    /\ (last.op = "rotate" /\ last.ret = Ok) => last.delta = 1
    /\ (last.op = "retire" /\ last.ret = Ok) => last.delta = -1

\* C11: ActiveEndpoints is never longer than the number of successful
\* Rotates, it is empty once every endpoint a Rotate returned was retired,
\* every successful Rotate makes it one longer, and a successful Retire makes
\* it one shorter when the endpoint had not expired and leaves its length
\* alone when the endpoint had expired.
C11_Lengths ==
    /\ Len(ActiveEndpoints) <= Len(issued)
    /\ (IdsOf(issued) \subseteq retired) => ActiveEndpoints = <<>>
    /\ (last.op = "rotate" /\ last.ret = Ok) => last.delta = 1
    /\ (last.op = "retire" /\ last.ret = Ok) =>
           last.delta = IF last.live THEN -1 ELSE 0

\* Two Rotates succeeded, each endpoint was retired, the last one while it
\* had not expired.
C11_Witness ==
    /\ variant = ProviderNoOp
    /\ Len(issued) = 2
    /\ IdsOf(issued) \subseteq retired
    /\ last.op = "retire" /\ last.ret = Ok /\ last.live
    /\ ActiveEndpoints = <<>>

\* C12: a Retire that does not find the endpoint in the list returns the
\* not-found error and leaves the list as it was, for each of the three
\* variants.
C12_RetireAbsent ==
    (last.op = "retire" /\ ~last.found) => (last.ret = ErrNotFound /\ last.same)

\* The positions at which a Rotate holds a name it has not appended yet.
Rotating == {"cf_deploy", "cf_append", "aws_create", "aws_url", "aws_cleanup",
             "aws_append"}

\* C13: the counter only grows, so the names Rotate hands out are pairwise
\* distinct, among the calls in progress and the endpoints of the list; every
\* endpoint a Rotate appended is in the list exactly once and none is lost.
C13_DistinctIds ==
    /\ \A t, u \in Callers :
         (t # u /\ rpc[t] \in Rotating /\ rpc[u] \in Rotating) => rep[t].id # rep[u].id
    /\ \A t \in Callers : rpc[t] \in Rotating => rep[t].id \notin IdsOf(endpoints)
    /\ \A i, j \in 1..Len(endpoints) : i # j => endpoints[i].id # endpoints[j].id
    /\ \A k \in 1..Len(endpoints) : endpoints[k].id[3] \in 1..counter
    /\ endpoints = issued

\* Two Rotates of the CDN-worker variant overlap: the one that took the later
\* name has appended, the other has not yet.
C13_Witness ==
    /\ variant = ProviderCloudflare
    /\ Len(endpoints) = 1
    /\ \E t \in Callers : rpc[t] = "cf_append" /\ rep[t].id[3] < endpoints[1].id[3]

\* C14: ActiveEndpoints is the list, in the order of creation, of the
\* endpoints Rotate added that were not retired and are not expired, an
\* endpoint being expired when now >= its expiry (so it is left out at the
\* instant now equals the expiry).
C14_ActiveList ==
    ActiveEndpoints = SelectSeq(issued, LAMBDA e : e.id \notin retired /\ ~(now >= e.expires))

\* C20: when the Rotate of the serverless variant returned the create-URL
\* error, the function it created is gone at the provider and no endpoint of
\* that name is in the list.
C20_CleanupDone ==
    (last.op = "rotate" /\ last.ret = ErrCreateURL) => (last.gone /\ ~last.found)

\* The prefix of the names the Rotate of a variant gives to what it creates
\* at its provider (cloudflare.go:46, aws.go:46).
OwnPrefix(v) == IF v = ProviderCloudflare THEN "entropy-worker" ELSE "entropy-lambda"

\* C15: with the CDN-worker and the serverless variant, the endpoints the
\* goroutine of StartAutoRotation adds carry the provider tag of the variant
\* and a name of the variant's provider.
C15_OwnRotate ==
    variant \in {ProviderCloudflare, ProviderAWS} =>
        \A k \in 1..Len(endpoints) :
            /\ endpoints[k].provider = variant
            /\ endpoints[k].id[1] = OwnPrefix(variant)

\* The goroutines of StartAutoRotation are between two ticks and no Retire
\* they spawned is pending.
Settled == pend = {} /\ \A k \in Tasks : tpc[k] \in {"none", "loop", "select", "done"}

\* C16: while one automatic rotation runs from an empty list and nothing
\* else calls the controller, the list never holds more than three endpoints,
\* and at most two once the Retires spawned have completed.
C16_KeepsTwo ==
    (starts = 1 /\ stops = 0) =>
        /\ Len(endpoints) <= 3
        /\ Settled => Len(endpoints) <= 2

\* C17: when StartAutoRotation was called again and nothing was stopped, at
\* most one goroutine invokes Rotate from then on.
C17_OneSchedule == (stops = 0) => Cardinality(rotBy) <= 1

\* C18: a goroutine of StartAutoRotation that existed when StopAutoRotation
\* returned begins no further Rotate.
C18_StopHalts == ~late

\* C19: a goroutine of Start that existed when Stop returned begins no
\* further probe round.
C19_StopHalts == ~mlate


\* C21: every endpoint a Rotate of the CDN-worker or serverless controller
\* returned carries a non-empty address; a provider answer with a status of
\* 400 or more never ends in a returned endpoint.
C21_IssuedAddress ==
    \A k \in 1..Len(issued) :
        issued[k].provider \in {ProviderCloudflare, ProviderAWS}
            => issued[k].address # ""

\* C22: a Retire of the CDN-worker or serverless controller for an endpoint
\* of its list returns without an error only when the resource is gone at
\* the provider.
C22_RetireTornDown ==
    (/\ last.op = "retire"
     /\ last.found
     /\ variant \in {ProviderCloudflare, ProviderAWS}
     /\ last.ret = Ok) => last.gone

\* C23: a Rotate that returns an error under a cancelled ctx leaves nothing
\* it created at the provider.
C23_CancelledClean ==
    (/\ last.op = "rotate"
     /\ last.cancelled
     /\ last.ret # Ok) => last.gone

\* The Rotate that returned last, or ended, had a deployment and no lease.
LeaseFailed == last.op = "rotate" /\ last.ret \in {Panic, "waiting for lease"}

\* C39: a Rotate of the Akash controller whose wait for the lease failed has
\* returned an error and has not panicked, the deployment it created is gone
\* at the provider, c.endpoints is as it was and c.mu is free.
C39_LeaseFailure ==
    LeaseFailed =>
        /\ last.ret # Panic
        /\ last.gone
        /\ last.same
        /\ ~AkashHeld

\* ------------------------------------------------ claims of the monitor
\* At most one goroutine of Start has been spawned, so that the probes of an
\* endpoint follow one another.
OneMonitor == Cardinality({k \in Tasks : mpc[k] # "none"}) <= 1

C25_RetireThenRotate ==
    /\ hlast.spawned <=> (~hlast.healthy /\ hlast.count >= 3)
    /\ \A g \in hgo :
         /\ g.at >= 3
         /\ g.pc \in {"rotate", "rotating"} => IndexOf(g.ep.id) = 0

\* The third failure in a row spawned a goroutine, its Retire removed the
\* endpoint and returned, and its Rotate is still to come.
C25_Witness ==
    /\ \E g \in hgo : g.at = 3 /\ g.pc = "rotate" /\ g.ep.id \in retired
    /\ last.op = "retire" /\ last.ret = Ok

\* C26: no goroutine of Start ever waits at the start of a probe round for a
\* Retire or Rotate that the monitor triggered.
C26_NeverWaits == \A k \in Tasks : ~Waiting(k)

\* C35: the goroutines checkAll has spawned are for different endpoints: no
\* endpoint has a second Retire-then-Rotate goroutine, whatever the first one
\* has done so far.
C35_OneTrigger ==
    \A g, h \in hgo : g.ep.id = h.ep.id => g = h

\* ------------------------------------------------ claims of the compiler
\* A builder has returned for the configuration at hand.
Compiled == cstage \in {"compiled", "instance", "refused", "running"}
Attempted == Compiled \/ cstage = "failed"

\* C27: a configuration that Validate accepted compiles, and what it compiled
\* to is loaded by the stub loader and started.
C27_ValidatedLoads == cvalid => cstage \notin {"failed", "refused"}

\* C28: no document a builder returned contains one of the identifying
\* strings, whatever the case of its letters.
C28_NoIdentifyingString == cleak = {}

\* The inbounds and outbounds of the document and their tags.
Inbounds == Elements(Member(cdoc, <<"i", "n", "b", "o", "u", "n", "d", "s">>))
Outbounds == Elements(Member(cdoc, <<"o", "u", "t", "b", "o", "u", "n", "d", "s">>))
TagsOf(list) == [k \in 1..Len(list) |-> Member(list[k], <<"t", "a", "g">>).v]

\* The address has a port: a colon with an integer behind the last one.
HasPort(a) ==
    /\ LastIndex(a, ":") # 0
    /\ AtoiOK(SubSeq(a, LastIndex(a, ":") + 1, Len(a)))

\* C29: the document of a validated server configuration has one inbound
\* more than the configuration has fallbacks, the primary one first and then
\* those of the fallbacks in their order, and the outbounds direct and block;
\* the document of a validated client configuration has the socks inbound
\* first, then the http inbound exactly when HTTPListen is there and has a
\* port, and two outbounds.
C29_InboundsOutbounds ==
    (cvalid /\ Compiled) =>
        IF cin.kind = "server"
          THEN /\ Len(Inbounds) = Len(cin.Fallbacks) + 1
               /\ TagsOf(Inbounds) =
                     <<<<"v", "l", "e", "s", "s", "-", "r", "e", "a", "l", "i", "t", "y">>>>
                     \o [k \in 1..Len(cin.Fallbacks) |->
                           <<"f", "a", "l", "l", "b", "a", "c", "k", "-">> \o cin.Fallbacks[k].Protocol
                           \o <<"-">> \o Itoa(k - 1)]
               /\ TagsOf(Outbounds) = <<<<"d", "i", "r", "e", "c", "t">>, <<"b", "l", "o", "c", "k">>>>
          ELSE /\ TagsOf(Inbounds) =
                     IF cin.HTTPListen # <<>> /\ HasPort(cin.HTTPListen)
                       THEN <<<<"s", "o", "c", "k", "s", "-", "i", "n">>, <<"h", "t", "t", "p", "-", "i", "n">>>>
                       ELSE <<<<"s", "o", "c", "k", "s", "-", "i", "n">>>>
               /\ Len(Outbounds) = 2

\* A validated server configuration with two fallbacks was compiled.
C29_Witness ==
    /\ cvalid /\ Compiled
    /\ cin.kind = "server"
    /\ Len(cin.Fallbacks) = 2
    /\ Len(Inbounds) = 3

\* C30: a builder given nil returns the nil-config error; given a listen
\* address, fallback listen address or local listen address without a port, or
\* a server address with something other than an integer behind its last
\* colon, it returns an address error; in each case without a document.  An
\* address ":P" gives the listen host 0.0.0.0 and the port P, and a server
\* address without a colon gives the port 443.
C30_AddressErrors ==
    Attempted =>
        /\ cin.nil => (cstage = "failed" /\ cjson = <<>>
                       /\ cerr \in {ErrNilConfig, ErrNilClientConfig})
        /\ (~cin.nil /\ cin.kind = "server"
            /\ (\/ ~HasPort(cin.Listen)
                \/ \E k \in 1..Len(cin.Fallbacks) : ~HasPort(cin.Fallbacks[k].Listen)))
              => (cstage = "failed" /\ cjson = <<>>
                  /\ cerr \in {ErrListen, ErrFallbackListen})
        /\ (~cin.nil /\ cin.kind = "client" /\ ~HasPort(cin.LocalListen))
              => (cstage = "failed" /\ cjson = <<>> /\ cerr = ErrLocalListen)
        /\ (~cin.nil /\ cin.kind = "client" /\ LastIndex(cin.Server, ":") # 0
            /\ ~HasPort(cin.Server))
              => (cstage = "failed" /\ cjson = <<>>)
        /\ (Compiled /\ cin.kind = "server" /\ cin.Listen = <<":", "8">>)
              => (/\ Member(Inbounds[1], <<"l", "i", "s", "t", "e", "n">>).v = <<"0", ".", "0", ".", "0", ".", "0">>
                  /\ Member(Inbounds[1], <<"p", "o", "r", "t">>).v = 8)
        /\ (Compiled /\ cin.kind = "client" /\ LastIndex(cin.Server, ":") = 0)
              => Member(Elements(Member(Member(Outbounds[1], <<"s", "e", "t", "t", "i", "n", "g", "s">>),
                                        <<"v", "n", "e", "x", "t">>))[1], <<"p", "o", "r", "t">>).v = 443

\* What a reader of the document finds under a key: the member, or the zero
\* value of its type when the encoder has left the member out (`omitempty`).
StringAt(j, k) == IF Has(j, k) THEN Member(j, k).v ELSE <<>>
NumberAt(j, k) == IF Has(j, k) THEN Member(j, k).v ELSE 0

\* The realitySettings of the first inbound of the document.
PrimaryReality ==
    Member(Member(Inbounds[1], <<"s", "t", "r", "e", "a", "m", "S", "e", "t", "t", "i", "n", "g", "s">>), <<"r", "e", "a", "l", "i", "t", "y", "S", "e", "t", "t", "i", "n", "g", "s">>)

JustValidated == cstage \in {"validated", "rejected"}

\* The protocol of the given configuration once an empty one is "vless".
GivenProtocol == IF cgiven.Protocol = <<>> THEN <<"v", "l", "e", "s", "s">> ELSE cgiven.Protocol

\* C32: Validate accepts a server configuration exactly when the given listen
\* address, client identifier, hostname and private key are not empty and the
\* protocol, "vless" for an empty one, is vless or trojan; the accepted
\* configuration has that protocol and the given fingerprint, "chrome" for an
\* empty one, and Validate applied to it accepts it and returns it as it is.
\* Validate accepts a client configuration exactly when the given server
\* address, client identifier, hostname and public key are not empty; the
\* accepted configuration has the given local listen address,
\* "127.0.0.1:1080" for an empty one, and the given API address,
\* "127.0.0.1:9876" for an empty one.
C32_Validate ==
    JustValidated =>
        IF cin.kind = "server"
          THEN /\ cvalid <=> /\ cgiven.Listen # <<>>
                             /\ cgiven.UUID # <<>>
                             /\ cgiven.SNI # <<>>
                             /\ cgiven.PrivateKey # <<>>
                             /\ GivenProtocol \in {<<"v", "l", "e", "s", "s">>, <<"t", "r", "o", "j", "a", "n">>}
               /\ cvalid => /\ cin.Protocol = GivenProtocol
                            /\ cin.Fingerprint =
                                  IF cgiven.Fingerprint = <<>> THEN <<"c", "h", "r", "o", "m", "e">>
                                  ELSE cgiven.Fingerprint
                            /\ ValidateServer(cin) = [err |-> "", cfg |-> cin]
          ELSE /\ cvalid <=> /\ cgiven.Server # <<>>
                             /\ cgiven.UUID # <<>>
                             /\ cgiven.SNI # <<>>
                             /\ cgiven.PublicKey # <<>>
               /\ cvalid => /\ cin.LocalListen =
                                  IF cgiven.LocalListen = <<>> THEN <<"1", "2", "7", ".", "0", ".", "0", ".", "1", ":", "1", "0", "8", "0">>
                                  ELSE cgiven.LocalListen
                            /\ cin.APIListen =
                                  IF cgiven.APIListen = <<>> THEN <<"1", "2", "7", ".", "0", ".", "0", ".", "1", ":", "9", "8", "7", "6">>
                                  ELSE cgiven.APIListen
                            /\ ValidateClient(cin) = [err |-> "", cfg |-> cin]

\* Validate has accepted a server configuration given with the protocol
\* trojan and without a fingerprint.
C32_Witness ==
    /\ cstage = "validated" /\ cin.kind = "server"
    /\ cgiven.Protocol = <<"t", "r", "o", "j", "a", "n">> /\ cgiven.Fingerprint = <<>>
    /\ cin.Fingerprint = <<"c", "h", "r", "o", "m", "e">>

\* ------------------------------------------------ claims of the supervisor
\* No Start or Stop is between taking e.mu and releasing it.
Quiescent == muWriter = 0

\* C36: while no Start or Stop holds the engine, every Instance the loader
\* has handed out is the one the running engine owns or has had Close called
\* on it.
C36_InstancesClosed ==
    Quiescent =>
        \A i \in InstIds :
            instState[i] # "none" =>
                \/ instance = i /\ status = StatusRunning
                \/ closes[i] >= 1

\* C37: while no Start or Stop holds the engine, its state is stopped,
\* running or error, and it owns an Instance exactly when it is running.
C37_QuiescentState ==
    Quiescent =>
        /\ status \in {StatusStopped, StatusRunning, StatusError}
        /\ instance # 0 <=> status = StatusRunning

\* A Start has failed after a run that a Stop has ended, and the engine is in
\* state error without an Instance.
C37_Witness ==
    /\ Quiescent /\ status = StatusError /\ instance = 0
    /\ \E i \in InstIds : instState[i] = "closed"

\* C38: a Start that finds the state error is not refused: it stores
\* starting and goes on to the build, and when the build, the load and the
\* start of the Instance succeed it returns success with the state running; a
\* Stop that finds the state error returns NotRunning and the state stays
\* error.
C38_ErrorNotTerminal ==
    [][\A t \in Threads :
        /\ (StartEnters(t) /\ status = StatusError)
              => /\ pc'[t] = "start_build"
                 /\ status' = StatusStarting
                 /\ steps'[t] = <<>>
        /\ (pc[t] = "start_inst" /\ pc'[t] # "start_inst" /\ instState'[inst[t]] = "started")
              => /\ steps'[t] = AllSteps
                 /\ ret'[t] = Ok
                 /\ status' = StatusRunning
        /\ (StopEnters(t) /\ status = StatusError)
              => /\ ret'[t] = ErrNotRunning
                 /\ status' = StatusError]_vars

\* The engine is running with its second Instance after the Start of the
\* first one had failed, and a Stop in between was refused.
C38_Witness ==
    /\ status = StatusRunning /\ instance = 2
    /\ instState[1] = "failed" /\ instState[2] = "started"
    /\ \E t \in Threads : pc[t] = "idle" /\ ret[t] = ErrNotRunning

\* ------------------------------------------------ claims of the control API
\* C33: a status response carries an uptime exactly when the status in it is
\* running, whoever started the supervisor.
C33_UptimeWhenRunning ==
    \A t \in Threads :
        resp[t].verb = "status" =>
            (resp[t].uptime <=> resp[t].status = StatusRunning)

\* ------------------------------------------------ claims of the registry
\* The names of the registered protocols that are available.
AvailableNames == {n \in DOMAIN protocols : protocols[n].available}

\* C34: SelectBest returns an error exactly when no registered protocol is
\* available, and otherwise a registered protocol that is available and has a
\* priority no greater than that of any available one; Register of a name
\* that is in the registry returns an error and leaves the registry as it
\* was, and Register of a new name adds the protocol and nothing else.
C34_SelectBest ==
    /\ rlast.op = "select" =>
          /\ rlast.err <=> AvailableNames = {}
          /\ ~rlast.err =>
                /\ rlast.p.name \in AvailableNames
                /\ protocols[rlast.p.name] = rlast.p
                /\ \A n \in AvailableNames :
                      rlast.p.priority <= protocols[n].priority
    /\ rlast.op = "register" =>
          /\ rlast.err <=> rlast.p.name \in DOMAIN rlast.before
          /\ rlast.err => protocols = rlast.before
          /\ ~rlast.err =>
                /\ DOMAIN protocols = DOMAIN rlast.before \cup {rlast.p.name}
                /\ protocols[rlast.p.name] = rlast.p
                /\ \A n \in DOMAIN rlast.before : protocols[n] = rlast.before[n]

\* SelectBest has returned the better of two available protocols, passing
\* over an unavailable one of a smaller priority number.
C34_Witness ==
    /\ rlast.op = "select" /\ ~rlast.err
    /\ \E n \in AvailableNames : protocols[n].priority > rlast.p.priority
    /\ \E n \in DOMAIN protocols :
          ~protocols[n].available /\ protocols[n].priority < rlast.p.priority

\* ------------------------------------------------ claims of the list
\* list without the element at position k.
Dropped(list, k) == SubSeq(list, 1, k - 1) \o SubSeq(list, k + 1, Len(list))

\* C40: after a Retire that returned nil the list is the list of before
\* without the one endpoint that had the identifier, the others in the order
\* they were in, and no endpoint of the list has the identifier; and the
\* slice ActiveEndpoints returned holds what it held when it was returned,
\* whatever Rotate and Retire did since.
C40_RetireAndSnapshot ==
    /\ (slast.op = "retire" /\ slast.ret = Ok) =>
          /\ \E k \in 1..Len(slast.before) :
                /\ slast.before[k].id = slast.id
                /\ slast.after = Dropped(slast.before, k)
          /\ \A j \in 1..Len(slast.after) : slast.after[j].id # slast.id
    /\ snap.taken => Content(snap.slice) = snap.was

\* ActiveEndpoints returned three endpoints, and Retire has since removed the
\* second of them from the list of the controller.
C40_Witness ==
    /\ Len(snap.was) = 3
    /\ slast.op = "retire"
    /\ slast.ret = Ok
    /\ slast.id = snap.was[2].id
    /\ Len(slast.before) = 3
    /\ Content(cends) = <<snap.was[1], snap.was[3]>>
====
